---- MODULE Spec2Model ----
(***************************************************************************)
(* Verification model of the loadsphere trip planner backend               *)
(* (src/backend/planner): the trip store and its request handlers, the     *)
(* background job queue, the HOS day scheduler, the driver-log validator   *)
(* and the alert evaluator.  Each subsystem has its own specification over *)
(* the shared variables: SpecTrips, SpecPlan, SpecJobs, SpecJobsSeq,       *)
(* SpecJobsOrphan, SpecJobsLive (with fairness), SpecHos, SpecHosLive      *)
(* (with fairness), SpecLogs, SpecLogsRace, SpecLogAccess, SpecLogsClock,  *)
(* SpecAlerts and SpecPlanAlerts.  SpecLogs, SpecLogsRace and              *)
(* SpecLogAccess follow driver-log calls during which the server's date    *)
(* stays the same; SpecLogsClock adds the call that runs over midnight.    *)
(*                                                                         *)
(* Numbers: the code's floats are modelled by exact integers.  Miles and   *)
(* hours of routing responses are whole numbers; scheduler hours are       *)
(* counted in units of 1/UnitsPerHour hour.  Text is modelled by a tag     *)
(* and, where the code slices it, a length.                                *)
(***************************************************************************)
EXTENDS Integers, Sequences, FiniteSets, TLC

(* ------------------------------ bounds -------------------------------- *)
\* Trip ids handed out by the store (auto-increment primary key).
MaxTrips == 2

VARIABLES
    trips,       \* Trip rows, committed: id -> row
    routes,      \* Route rows, committed: trip id -> row (one-to-one with Trip)
    stops,       \* Stop rows, committed: set of rows, each naming its route
    driverLogs,  \* DriverLog rows, committed: <<trip id, day_number>> -> row
    nextTripId,  \* next auto-increment Trip id
    req,         \* request slots: position and locals of each in-flight request
    hos,         \* one run of generate_driver_logs: its arguments, locals and result
    dutySegments,\* DutyStatusSegment rows, committed: log key -> rows in insertion order
    logCall,     \* the last upsert_driver_log call: its arguments and outcome
    jobs,        \* BackgroundJob rows: id -> row
    nextJobId,   \* creation order of BackgroundJob rows (created_at)
    workers,     \* job runner invocations: position and locals of each
    logTx,       \* an upsert_driver_log transaction in flight beside the other callers
    alertRun     \* one call of _evaluate_hos_alerts: its arguments and the list it returns

vars == <<trips, routes, stops, driverLogs, nextTripId, req, hos,
          dutySegments, logCall, jobs, nextJobId, workers, logTx,
          alertRun>>
jobVars == <<jobs, nextJobId, workers>>
\* What the request handlers of the trip store leave alone.
notTrips == <<hos, logCall, jobVars, logTx, alertRun>>
\* What the scheduler leaves alone.
notHos == <<trips, routes, stops, driverLogs, nextTripId, req, dutySegments, logCall, jobVars,
           logTx, alertRun>>

(* ------------------------------ values -------------------------------- *)
Users == {"u1", "u2"}
\* The users whose update and delete requests are followed (u2 only plans).
Actors == {"u1"}
NoUser == "none"
\* Two request slots: the handlers race pairwise.
Requests == {1, 2}

TRIP_STATUS_PLANNED == "PLANNED"
TRIP_STATUS_IN_PROGRESS == "IN_PROGRESS"
TRIP_STATUS_COMPLETED == "COMPLETED"
TRIP_STATUS_CANCELLED == "CANCELLED"
STATUS_CHOICES ==
    {TRIP_STATUS_PLANNED, TRIP_STATUS_IN_PROGRESS, TRIP_STATUS_COMPLETED, TRIP_STATUS_CANCELLED}

\* The configured database engine is MySQL, which has no partial (conditional)
\* indexes: Django creates no index for a UniqueConstraint that carries a
\* condition there (system check models.W036), so unique_active_trip_per_user
\* is declared by the model and the migration but not enforced by the store.
DATABASE_ENGINE == "mysql"
supports_partial_indexes == DATABASE_ENGINE # "mysql"

\* cycle_hours_used values a request may carry (hours).
CycleInputs == {0, 70}

\* What the routing collaborator can answer: totals and per-leg segments.
RouteResponses ==
    { [total_distance_miles |-> 100, total_duration_hours |-> 20,
       segments |-> << [distance_miles |-> 50, duration_hours |-> 10],
                       [distance_miles |-> 50, duration_hours |-> 10] >>],
      [total_distance_miles |-> 30, total_duration_hours |-> 5,
       segments |-> << [distance_miles |-> 30, duration_hours |-> 5] >>] }

\* Messages of the RoutePlannerError the collaborator can raise.
RouteErrors ==
    { "OpenRouteService returned no routes for the given coordinates.",
      "Failed to contact OpenRouteService" }

Ok == [ok |-> TRUE, kind |-> "", message |-> ""]
Err(kind, message) == [ok |-> FALSE, kind |-> kind, message |-> message]
NoResult == [ok |-> FALSE, kind |-> "pending", message |-> ""]
NoRow == [user |-> NoUser]

IdleReq ==
    [op |-> "none", pc |-> "idle", user |-> NoUser, tid |-> 0, ns |-> "",
     snap |-> "", txTrip |-> NoRow, result |-> NoResult]

\* A finished request: only its outcome (and, for planTrip, the id of the trip
\* it created) stays in the slot.
Done(op, tid, result) ==
    [IdleReq EXCEPT !.op = op, !.pc = "done", !.tid = tid, !.result = result]

Free(r) == req[r].pc \in {"idle", "done"}

\* A Python str whose length matters: the first len characters of text.
Str(text, len) == [text |-> text, len |-> len]
\* No pipeline run made yet by an invocation of the job runner.
NoOutcome == [ok |-> FALSE, kind |-> "pending", message |-> Str("", 0), trip |-> 0]
\* Two invocations of the job runner can be in progress at a time.
Workers == {1, 2}
IdleWorker == [op |-> "none", pc |-> "idle", limit |-> 0, pending_jobs |-> <<>>, idx |-> 0,
               outcome |-> NoOutcome, processed |-> <<>>]
\* No upsert_driver_log call made yet.
NoLogCall == [pc |-> "idle", op |-> "none", user |-> NoUser, trip_id |-> 0, day_number |-> 0,
              segments |-> <<>>, result |-> NoResult]

\* No call of _evaluate_hos_alerts made yet.
NoAlertRun == [pc |-> "idle", log_payloads |-> <<>>, cycle_hours_used |-> 0, alerts |-> <<>>]

\* No upsert_driver_log transaction in flight beside the other callers.
NoLogTx == [pc |-> "idle", trip_id |-> 0, day_number |-> 0, parsed_segments |-> <<>>,
            row_gone |-> FALSE, result |-> NoResult]

\* The empty store, idle request slots and idle workers.
InitStore ==
    /\ trips = <<>>
    /\ routes = <<>>
    /\ stops = {}
    /\ driverLogs = <<>>
    /\ dutySegments = <<>>
    /\ nextTripId = 1
    /\ req = [r \in Requests |-> IdleReq]
    /\ logCall = NoLogCall
    /\ jobs = <<>>
    /\ nextJobId = 1
    /\ workers = [w \in Workers |-> IdleWorker]
    /\ logTx = NoLogTx
    /\ alertRun = NoAlertRun

(* ========================= HOS day scheduler ========================== *)
\* Hours are counted in units of 1/UnitsPerHour hour, so that the rounding of
\* hours to whole minutes has something to round.
UnitsPerHour == 240
\* total_trip_hours ranges over -1..MaxTripHours hours (plus a fraction),
\* cycle_hours_used over 0..MaxCycleHours hours (plus a fraction).
MaxTripHours == 72
MaxCycleHours == 71
\* Fractions of an hour, in units, added to the whole hours of an input.
TripFractions == {0, 2, 3}
CycleFractions == {0, 3}

DRIVING_LIMIT_PER_DAY == 11
ON_DUTY_LIMIT_PER_DAY == 14
CYCLE_LIMIT_HOURS == 70
MANDATORY_OFF_DUTY_HOURS == 10
ON_DUTY_BUFFER_HOURS == 2

Hours(h) == h * UnitsPerHour
Min2(a, b) == IF a <= b THEN a ELSE b
Max2(a, b) == IF a >= b THEN a ELSE b
Min3(a, b, c) == Min2(a, Min2(b, c))

\* round(num / den) for num >= 0, den > 0: Python 3 rounds halves to even.
RoundHalfEven(num, den) ==
    LET q == num \div den
        twice == 2 * (num % den)
    IN  IF twice < den THEN q
        ELSE IF twice > den THEN q + 1
        ELSE IF q % 2 = 0 THEN q ELSE q + 1

\* int(round(hours * 60)), the hours given in units
ToMinutes(units) == RoundHalfEven(units * 60, UnitsPerHour)

\* round(hours, 2), the hours given in units; the result in hundredths of an hour
RoundHundredths(units) == RoundHalfEven(units * 100, UnitsPerHour)

HOS_NEGATIVE == "Trip duration must be non-negative."
HOS_CYCLE_EXHAUSTED == "Driver has exhausted the 70-hour cycle. Trip cannot be scheduled."
HOS_NO_HOURS == "No remaining hours available to schedule this trip."

\* cycle_hours_remaining = max(CYCLE_LIMIT_HOURS - cycle_hours_used, 0.0)
CycleHoursRemaining(cycle_hours_used) == Max2(Hours(CYCLE_LIMIT_HOURS) - cycle_hours_used, 0)

\* hours_to_schedule = min(total_trip_hours, cycle_hours_remaining)
HoursToSchedule(total_trip_hours, cycle_hours_used) ==
    Min2(total_trip_hours, CycleHoursRemaining(cycle_hours_used))

\* Mutant: the cycle guard written with < instead of <=.
HosError_StrictCycle(total_trip_hours, cycle_hours_used) ==
    IF total_trip_hours < 0 THEN HOS_NEGATIVE
    ELSE IF CycleHoursRemaining(cycle_hours_used) < 0 THEN HOS_CYCLE_EXHAUSTED
    ELSE IF HoursToSchedule(total_trip_hours, cycle_hours_used) <= 0 THEN HOS_NO_HOURS
    ELSE ""

\* The three guards ahead of the loop: the message of the HOSComputationError
\* raised, "" when none is.
HosError(total_trip_hours, cycle_hours_used) ==
    IF total_trip_hours < 0 THEN HOS_NEGATIVE
    ELSE IF CycleHoursRemaining(cycle_hours_used) <= 0 THEN HOS_CYCLE_EXHAUSTED
    ELSE IF HoursToSchedule(total_trip_hours, cycle_hours_used) <= 0 THEN HOS_NO_HOURS
    ELSE ""

\* Mutant: the 11-hour ceiling left out of the minimum.
PlannedDriving_NoCeiling(remaining_hours, remaining_cycle) ==
    Min2(remaining_hours, remaining_cycle)

\* planned_driving = min(DRIVING_LIMIT_PER_DAY, remaining_hours, remaining_cycle)
PlannedDriving(remaining_hours, remaining_cycle) ==
    Min3(Hours(DRIVING_LIMIT_PER_DAY), remaining_hours, remaining_cycle)

\* Mutant: every day planned as a full 14-hour window.
PlannedOnDuty_FullWindow(planned_driving, remaining_cycle) ==
    Min2(Hours(ON_DUTY_LIMIT_PER_DAY), remaining_cycle)

\* Mutant: no buffer added to the driving time.
PlannedOnDuty_NoBuffer(planned_driving, remaining_cycle) ==
    Min3(planned_driving, Hours(ON_DUTY_LIMIT_PER_DAY), remaining_cycle)

\* Mutant: the on-duty time not capped by what is left of the cycle.
PlannedOnDuty_NoCycleCap(planned_driving, remaining_cycle) ==
    Min2(planned_driving + Hours(ON_DUTY_BUFFER_HOURS), Hours(ON_DUTY_LIMIT_PER_DAY))

\* planned_on_duty = min(planned_driving + ON_DUTY_BUFFER_HOURS, ON_DUTY_LIMIT_PER_DAY, remaining_cycle)
PlannedOnDuty(planned_driving, remaining_cycle) ==
    Min3(planned_driving + Hours(ON_DUTY_BUFFER_HOURS), Hours(ON_DUTY_LIMIT_PER_DAY),
         remaining_cycle)

\* One DailyHosSummary as its payload (as_payload).  planned_driving and
\* planned_on_duty are the unrounded hours of the day, kept beside the payload's
\* fields for reference; remaining_cycle_hours is in hundredths of an hour.
DailyHosSummary(day_number, planned_driving, planned_on_duty, remaining_cycle) ==
    LET driving_minutes == ToMinutes(planned_driving)
        on_duty_minutes == ToMinutes(planned_on_duty)
        off_duty_minutes == ToMinutes(Hours(MANDATORY_OFF_DUTY_HOURS))
    IN  [day_number |-> day_number,
         total_driving_minutes |-> driving_minutes,
         total_on_duty_minutes |-> on_duty_minutes,
         total_off_duty_minutes |-> off_duty_minutes,
         total_sleeper_minutes |-> 0,
         remaining_cycle_hours |-> RoundHundredths(Max2(remaining_cycle, 0)),
         segments |-> << [status |-> "ON_DUTY", minutes |-> on_duty_minutes - driving_minutes],
                         [status |-> "DRIVING", minutes |-> driving_minutes],
                         [status |-> "OFF_DUTY", minutes |-> off_duty_minutes] >>,
         planned_driving |-> planned_driving,
         planned_on_duty |-> planned_on_duty]

HosIdle ==
    [pc |-> "idle", total_trip_hours |-> 0, cycle_hours_used |-> 0, remaining_hours |-> 0,
     remaining_cycle |-> 0, day_number |-> 0, summaries |-> <<>>, error |-> ""]

\* The call: any arguments of the input ranges.
HosInputs ==
    { [HosIdle EXCEPT !.pc = "start", !.total_trip_hours = Hours(th) + tf,
                      !.cycle_hours_used = Hours(ch) + cf]
      : th \in (-1)..MaxTripHours, tf \in TripFractions,
        ch \in 0..MaxCycleHours, cf \in CycleFractions }

\* Lines 71-88: the guards, then the loop's locals.
HosStart ==
    /\ hos.pc = "start"
    /\ hos' = IF HosError(hos.total_trip_hours, hos.cycle_hours_used) # ""
              THEN [hos EXCEPT !.pc = "raised",
                               !.error = HosError(hos.total_trip_hours, hos.cycle_hours_used)]
              ELSE [hos EXCEPT !.pc = "loop", !.day_number = 1,
                               !.remaining_hours =
                                   HoursToSchedule(hos.total_trip_hours, hos.cycle_hours_used),
                               !.remaining_cycle = CycleHoursRemaining(hos.cycle_hours_used)]
    /\ UNCHANGED notHos

\* while remaining_hours > 0 and remaining_cycle > 0
HosLoopCondition == hos.remaining_hours > 0 /\ hos.remaining_cycle > 0

\* Lines 90-133: one pass of the loop.
HosDay ==
    /\ hos.pc = "loop"
    /\ HosLoopCondition
    /\ LET planned_driving == PlannedDriving(hos.remaining_hours, hos.remaining_cycle)
           planned_on_duty == PlannedOnDuty(planned_driving, hos.remaining_cycle)
           remaining_cycle == hos.remaining_cycle - planned_on_duty
       IN  hos' = [hos EXCEPT
                     !.remaining_hours = hos.remaining_hours - planned_driving,
                     !.remaining_cycle = remaining_cycle,
                     !.summaries = Append(hos.summaries,
                         DailyHosSummary(hos.day_number, planned_driving, planned_on_duty,
                                         remaining_cycle)),
                     !.day_number = hos.day_number + 1]
    /\ UNCHANGED notHos

\* Lines 135-145: the loop is left and the payloads are returned.
HosReturn ==
    /\ hos.pc = "loop"
    /\ ~HosLoopCondition
    /\ hos' = [hos EXCEPT !.pc = "returned"]
    /\ UNCHANGED notHos

InitHos == InitStore /\ hos \in HosInputs
NextHos == HosStart \/ HosDay \/ HosReturn
SpecHos == InitHos /\ [][NextHos]_vars
\* The call runs on: a Python function that has been called keeps executing.
SpecHosLive == SpecHos /\ WF_vars(NextHos)

(* ============================ trip store ============================== *)
(* --------------------------- plan_trip_for_user ----------------------- *)
\* Trip.objects.create(... status='PLANNED' ...)
NewTrip(user, cycle) ==
    [user |-> user, status |-> TRIP_STATUS_PLANNED, cycle_hours_used |-> cycle,
     total_miles |-> 0, total_hours |-> 0,
     itinerary_summary |-> [legs |-> <<>>, present |-> FALSE]]

\* Route.objects.create(...)
NewRoute(resp) ==
    [total_distance |-> resp.total_distance_miles,
     estimated_duration |-> resp.total_duration_hours]

STOP_LABELS == <<"START", "PICKUP", "DROPOFF">>

\* Mutant: the segment index off by one (segments[idx] for stop idx).
SegmentFor_OffByOne(resp, idx) ==
    IF idx < Len(resp.segments)
    THEN resp.segments[idx + 1]
    ELSE [distance_miles |-> 0, duration_hours |-> 0]

\* segment = segments[idx - 1] if idx - 1 < len(segments) else {}
\* (idx is the 0-based index of the stop; TLA+ sequences are 1-based)
SegmentFor(resp, idx) ==
    IF idx - 1 < Len(resp.segments)
    THEN resp.segments[idx]
    ELSE [distance_miles |-> 0, duration_hours |-> 0]

\* _build_stop_definitions followed by the loop over range(1, len(stop_definitions))
StopDefinitions(resp) ==
    [i \in 1..3 |->
        [type |-> STOP_LABELS[i],
         distance_from_previous |-> IF i = 1 THEN 0 ELSE SegmentFor(resp, i - 1).distance_miles,
         duration_from_previous |-> IF i = 1 THEN 0 ELSE SegmentFor(resp, i - 1).duration_hours]]

\* Stop(...) for index, definition in enumerate(stop_definitions, start=1)
StopRecords(tid, resp) ==
    { [route |-> tid, stop_type |-> StopDefinitions(resp)[i].type, sequence |-> i,
       duration_minutes |-> 0,
       distance_from_previous |-> StopDefinitions(resp)[i].distance_from_previous,
       duration_from_previous |-> StopDefinitions(resp)[i].duration_from_previous]
      : i \in 1..3 }

LegsPayload(resp) ==
    [i \in 1..2 |->
        [sequence |-> i, from_stop_type |-> STOP_LABELS[i], to_stop_type |-> STOP_LABELS[i + 1],
         distance_miles |-> SegmentFor(resp, i).distance_miles,
         duration_hours |-> SegmentFor(resp, i).duration_hours]]

\* trip.itinerary_summary = {...}
ItinerarySummary(resp) ==
    [legs |-> LegsPayload(resp), present |-> TRUE,
     total_distance_miles |-> resp.total_distance_miles,
     total_duration_hours |-> resp.total_duration_hours,
     hos_alerts |-> <<>>]

\* The trip row as saved at the end of the atomic block.
PlannedTrip(row, resp) ==
    [row EXCEPT !.total_miles = NewRoute(resp).total_distance,
                !.total_hours = NewRoute(resp).estimated_duration,
                !.itinerary_summary = ItinerarySummary(resp)]

\* Step 1: the atomic block is entered and the Trip row is created inside the
\* open transaction (not yet visible to other requests).
PlanCreateTrip(r, user, cycle) ==
    /\ Free(r)
    /\ nextTripId <= MaxTrips
    /\ req' = [req EXCEPT ![r] =
                 [IdleReq EXCEPT !.op = "planTrip", !.pc = "routing", !.user = user,
                                 !.tid = nextTripId, !.txTrip = NewTrip(user, cycle)]]
    /\ nextTripId' = nextTripId + 1
    /\ UNCHANGED <<trips, routes, stops, driverLogs, dutySegments, notTrips>>

\* Mutant: no atomic block around the pipeline, so the Trip row created before
\* the failure stays.
Rollback_NotAtomic(r, result) ==
    /\ trips' = trips @@ (req[r].tid :> req[r].txTrip)
    /\ req' = [req EXCEPT ![r] = Done("planTrip", req[r].tid, result)]
    /\ UNCHANGED <<routes, stops, driverLogs, dutySegments, nextTripId, notTrips>>

\* transaction.atomic() unwinding on an exception: the uncommitted rows go.
Rollback(r, result) ==
    /\ req' = [req EXCEPT ![r] = Done("planTrip", req[r].tid, result)]
    /\ UNCHANGED <<trips, routes, stops, driverLogs, dutySegments, nextTripId, notTrips>>

\* Step 2a: plan_route raises RoutePlannerError; it is re-raised as
\* TripPlanningError(str(exc)) and the transaction rolls back.
PlanRouteFails(r, msg) ==
    /\ req[r].op = "planTrip" /\ req[r].pc = "routing"
    /\ Rollback(r, Err("TripPlanningError", msg))

\* Step 2b: any other exception raised inside the atomic block.
PlanUnexpectedError(r) ==
    /\ req[r].op = "planTrip" /\ req[r].pc = "routing"
    /\ Rollback(r, Err("Exception", "unexpected"))

\* Mutant: the pipeline runs the HOS scheduler on the routed hours and fails the
\* plan when the scheduler raises.
PlanRouteOk_RunsScheduler(r, resp) ==
    /\ req[r].op = "planTrip" /\ req[r].pc = "routing"
    /\ IF HosError(Hours(resp.total_duration_hours), Hours(req[r].txTrip.cycle_hours_used)) # ""
       THEN Rollback(r, Err("TripPlanningError",
                            HosError(Hours(resp.total_duration_hours),
                                     Hours(req[r].txTrip.cycle_hours_used))))
       ELSE /\ trips' = trips @@ (req[r].tid :> PlannedTrip(req[r].txTrip, resp))
            /\ routes' = routes @@ (req[r].tid :> NewRoute(resp))
            /\ stops' = stops \cup StopRecords(req[r].tid, resp)
            /\ req' = [req EXCEPT ![r] = Done("planTrip", req[r].tid, Ok)]
            /\ UNCHANGED <<driverLogs, dutySegments, nextTripId, notTrips>>

\* Step 2c: plan_route answers; Route and Stops are created, the trip is saved
\* and the transaction commits.
PlanRouteOk(r, resp) ==
    /\ req[r].op = "planTrip" /\ req[r].pc = "routing"
    /\ trips' = trips @@ (req[r].tid :> PlannedTrip(req[r].txTrip, resp))
    /\ routes' = routes @@ (req[r].tid :> NewRoute(resp))
    /\ stops' = stops \cup StopRecords(req[r].tid, resp)
    /\ req' = [req EXCEPT ![r] = Done("planTrip", req[r].tid, Ok)]
    /\ UNCHANGED <<driverLogs, dutySegments, nextTripId, notTrips>>

(* --------------------------- UpdateTripStatus ------------------------- *)
\* Status strings a client may send.
RawStatuses == {"PLANNED", "in_progress", " COMPLETED ", "CANCELLED", "DONE", ""}

\* (status or "").strip().upper()
NormaliseStatus(raw) ==
    CASE raw = "in_progress" -> "IN_PROGRESS"
      [] raw = " COMPLETED " -> "COMPLETED"
      [] OTHER -> raw

\* Trip.objects.get(id=trip_id, user=user) finds a row
Owned(user, tid) == tid \in DOMAIN trips /\ trips[tid].user = user

\* Mutant: the check for another active trip looks only when the trip to change
\* is still PLANNED.
ExistingActive_OfPlannedOnly(user, tid) ==
    /\ tid \in DOMAIN trips /\ trips[tid].status = TRIP_STATUS_PLANNED
    /\ \E t \in DOMAIN trips :
          t # tid /\ trips[t].user = user /\ trips[t].status = TRIP_STATUS_IN_PROGRESS

\* Trip.objects.filter(user=user, status=IN_PROGRESS).exclude(pk=trip.pk).exists()
ExistingActive(user, tid) ==
    \E t \in DOMAIN trips :
        t # tid /\ trips[t].user = user /\ trips[t].status = TRIP_STATUS_IN_PROGRESS

\* Mutant: COMPLETED and CANCELLED are final.
TransitionError_FinalStatuses(current, target) ==
    IF current = TRIP_STATUS_IN_PROGRESS
       /\ target \notin {TRIP_STATUS_IN_PROGRESS, TRIP_STATUS_COMPLETED}
    THEN "Routes already in progress can only be marked as completed."
    ELSE IF current # TRIP_STATUS_PLANNED /\ target = TRIP_STATUS_PLANNED
    THEN "Only routes still in planning can be marked as planned."
    ELSE IF current \in {TRIP_STATUS_COMPLETED, TRIP_STATUS_CANCELLED} /\ target # current
    THEN "Finished routes cannot change status."
    ELSE ""

\* The two guards on the loaded trip's status; "" when both pass.
TransitionError(current, target) ==
    IF current = TRIP_STATUS_IN_PROGRESS
       /\ target \notin {TRIP_STATUS_IN_PROGRESS, TRIP_STATUS_COMPLETED}
    THEN "Routes already in progress can only be marked as completed."
    ELSE IF current # TRIP_STATUS_PLANNED /\ target = TRIP_STATUS_PLANNED
    THEN "Only routes still in planning can be marked as planned."
    ELSE ""

Finish(r, result) ==
    /\ req' = [req EXCEPT ![r] = Done(req[r].op, 0, result)]
    /\ UNCHANGED <<trips, routes, stops, driverLogs, dutySegments, nextTripId, notTrips>>

\* Step 1: load the trip and validate the status value.  A target other than
\* IN_PROGRESS needs no further query, so the transition guards follow at once.
UpdLoad(r, user, tid, raw) ==
    /\ Free(r)
    /\ LET ns == NormaliseStatus(raw)
           fail(msg) == Done("updateTripStatus", 0, Err("ValidationError", msg))
           next(pc) == [IdleReq EXCEPT !.op = "updateTripStatus", !.pc = pc, !.user = user,
                                       !.tid = tid, !.ns = ns, !.snap = trips[tid].status]
       IN  req' = [req EXCEPT ![r] =
                 IF ~Owned(user, tid) THEN fail("Trip not found")
                 ELSE IF ns \notin STATUS_CHOICES THEN fail("Invalid status value")
                 ELSE IF ns = TRIP_STATUS_IN_PROGRESS THEN next("check")
                 ELSE IF TransitionError(trips[tid].status, ns) # ""
                 THEN fail(TransitionError(trips[tid].status, ns))
                 ELSE next("save")]
    /\ UNCHANGED <<trips, routes, stops, driverLogs, dutySegments, nextTripId, notTrips>>

\* Step 2 (target IN_PROGRESS): the application-level check for another active
\* trip, then the transition guards on the trip as it was loaded.
UpdCheck(r) ==
    /\ req[r].op = "updateTripStatus" /\ req[r].pc = "check"
    /\ IF ExistingActive(req[r].user, req[r].tid)
       THEN Finish(r, Err("ValidationError", "Another trip is already in progress"))
       ELSE IF TransitionError(req[r].snap, req[r].ns) # ""
       THEN Finish(r, Err("ValidationError", TransitionError(req[r].snap, req[r].ns)))
       ELSE /\ req' = [req EXCEPT ![r].pc = "save"]
            /\ UNCHANGED <<trips, routes, stops, driverLogs, dutySegments, nextTripId, notTrips>>

\* Whether the store accepts the row update: the conditional unique index, where
\* the engine has one.
ConstraintHolds(tid, status) ==
    supports_partial_indexes /\ status = TRIP_STATUS_IN_PROGRESS
        => ~ExistingActive(trips[tid].user, tid)

\* Step 3: trip.status = normalised_status; trip.save(update_fields=[...]).
\* An UPDATE by primary key: it fails when the row is gone or the store rejects it.
UpdSave(r) ==
    /\ req[r].op = "updateTripStatus" /\ req[r].pc = "save"
    /\ IF req[r].tid \notin DOMAIN trips
       THEN Finish(r, Err("DatabaseError", "Save with update_fields did not affect any rows."))
       ELSE IF ~ConstraintHolds(req[r].tid, req[r].ns)
       THEN Finish(r, Err("IntegrityError", "unique_active_trip_per_user"))
       ELSE /\ trips' = [trips EXCEPT ![req[r].tid].status = req[r].ns]
            /\ req' = [req EXCEPT ![r] = Done("updateTripStatus", 0, Ok)]
            /\ UNCHANGED <<routes, stops, driverLogs, dutySegments, nextTripId, notTrips>>

(* ------------------------------ DeleteTrip ---------------------------- *)
\* Step 1: load the trip and check that it is still PLANNED.
DelLoad(r, user, tid) ==
    /\ Free(r)
    /\ LET fail(msg) == Done("deleteTrip", 0, Err("ValidationError", msg))
       IN  req' = [req EXCEPT ![r] =
                 IF ~Owned(user, tid) THEN fail("Trip not found")
                 ELSE IF trips[tid].status # TRIP_STATUS_PLANNED
                 THEN fail("Only planned routes can be deleted.")
                 ELSE [IdleReq EXCEPT !.op = "deleteTrip", !.pc = "delete", !.user = user,
                                      !.tid = tid, !.snap = trips[tid].status]]
    /\ UNCHANGED <<trips, routes, stops, driverLogs, dutySegments, nextTripId, notTrips>>

Without(f, k) == [x \in DOMAIN f \ {k} |-> f[x]]

\* Step 2: trip.delete(): the row goes by primary key, its Route, Stops and
\* DriverLogs and their DutyStatusSegments with it (on_delete=CASCADE).
DelDelete(r) ==
    /\ req[r].op = "deleteTrip" /\ req[r].pc = "delete"
    /\ trips' = Without(trips, req[r].tid)
    /\ routes' = Without(routes, req[r].tid)
    /\ stops' = {s \in stops : s.route # req[r].tid}
    /\ driverLogs' = [k \in {k \in DOMAIN driverLogs : k[1] # req[r].tid} |-> driverLogs[k]]
    /\ dutySegments' = [k \in {k \in DOMAIN dutySegments : k[1] # req[r].tid} |-> dutySegments[k]]
    /\ req' = [req EXCEPT ![r] = Done("deleteTrip", 0, Ok)]
    /\ UNCHANGED <<nextTripId, notTrips>>

(* ------------------------- specification: trips ----------------------- *)
InitTrips == InitStore /\ hos = HosIdle

\* The requests of the status machine: trips are planned with one fixed input.
NextTrips ==
    \E r \in Requests :
        \/ \E u \in Users : PlanCreateTrip(r, u, 0)
        \/ \E resp \in {x \in RouteResponses : Len(x.segments) = 2} : PlanRouteOk(r, resp)
        \/ \E u \in Actors, t \in 1..MaxTrips, raw \in RawStatuses : UpdLoad(r, u, t, raw)
        \/ UpdCheck(r)
        \/ UpdSave(r)
        \/ \E u \in Actors, t \in 1..MaxTrips : DelLoad(r, u, t)
        \/ DelDelete(r)

SpecTrips == InitTrips /\ [][NextTrips]_vars

(* ------------------------ specification: planning --------------------- *)
\* The planning pipeline with every input, and deletion to free the store.
NextPlan ==
    \E r \in Requests :
        \/ \E u \in Users, c \in CycleInputs : PlanCreateTrip(r, u, c)
        \/ \E msg \in RouteErrors : PlanRouteFails(r, msg)
        \/ PlanUnexpectedError(r)
        \/ \E resp \in RouteResponses : PlanRouteOk(r, resp)
        \/ \E u \in Users, t \in 1..MaxTrips : DelLoad(r, u, t)
        \/ DelDelete(r)

SpecPlan == InitTrips /\ [][NextPlan]_vars

(* ============================ job runner ============================== *)
\* BackgroundJob rows created by enqueue (an upper bound on nextJobId).
MaxJobs == 2

STATUS_PENDING == "PENDING"
STATUS_RUNNING == "RUNNING"
STATUS_SUCCESS == "SUCCESS"
STATUS_FAILED == "FAILED"
JOB_TYPE_PLAN_TRIP == "PLAN_TRIP"

\* error_message[:2048]
ERROR_MESSAGE_LIMIT == 2048

\* s[:n]
Slice(s, n) == [s EXCEPT !.len = Min2(s.len, n)]

USER_GONE == Str("Associated user no longer exists for this job.", 46)

\* What a pipeline run can raise: a TripPlanningError wrapping the routing
\* collaborator's message (its HTTP error message carries the whole response
\* body, here a body that brings the message to the limit and one past it), or
\* any other exception.
JobFailures ==
    { [kind |-> "TripPlanningError",
       message |-> Str("OpenRouteService returned no routes for the given coordinates.", 62)],
      [kind |-> "TripPlanningError",
       message |-> Str("OpenRouteService error (502): <body>", ERROR_MESSAGE_LIMIT)],
      [kind |-> "TripPlanningError",
       message |-> Str("OpenRouteService error (502): <body>", ERROR_MESSAGE_LIMIT + 1)],
      [kind |-> "Exception", message |-> Str("unexpected", 10)] }

\* The outcome of one pipeline run, as the runner holds it.
JobOk(tid) == [ok |-> TRUE, kind |-> "", message |-> Str("", 0), trip |-> tid]
JobErr(kind, message) == [ok |-> FALSE, kind |-> kind, message |-> message, trip |-> 0]

\* BackgroundJob.objects.create(user=user, job_type=PLAN_TRIP, payload=payload)
NewJob(user, cycle) ==
    [user |-> user, job_type |-> JOB_TYPE_PLAN_TRIP, status |-> STATUS_PENDING,
     payload |-> [cycle_hours_used |-> cycle],
     result |-> [trip_id |-> 0], error_message |-> Str("", 0),
     started_at |-> "null", completed_at |-> "null"]

\* save(update_fields=['status', 'started_at', 'updated_at'])
mark_running(job) ==
    [job EXCEPT !.status = STATUS_RUNNING, !.started_at = "set"]

\* save(update_fields=['status', 'result', 'completed_at', 'updated_at'])
mark_success(job, result) ==
    [job EXCEPT !.status = STATUS_SUCCESS, !.result = result, !.completed_at = "set"]

\* Mutant: the error message is stored whole.
mark_failed_Untruncated(job, error_message) ==
    [job EXCEPT !.status = STATUS_FAILED, !.error_message = error_message,
                !.completed_at = "set"]

\* save(update_fields=['status', 'error_message', 'completed_at', 'updated_at'])
mark_failed(job, error_message) ==
    [job EXCEPT !.status = STATUS_FAILED,
                !.error_message = Slice(error_message, ERROR_MESSAGE_LIMIT),
                !.completed_at = "set"]

WorkerFree(w) == workers[w].pc \in {"idle", "done"}
\* The job the invocation is working on.
CurrentJob(w) == workers[w].pending_jobs[workers[w].idx]

jobFrame == <<driverLogs, dutySegments, req, hos, logCall, logTx, alertRun>>

\* enqueue_trip_job
Enqueue(user, cycle) ==
    /\ nextJobId <= MaxJobs
    /\ jobs' = jobs @@ (nextJobId :> NewJob(user, cycle))
    /\ nextJobId' = nextJobId + 1
    /\ UNCHANGED <<trips, routes, stops, nextTripId, workers, jobFrame>>

RECURSIVE Ascending(_)
\* The ids of a set in ascending order (order_by('created_at')).
Ascending(S) ==
    IF S = {} THEN <<>>
    ELSE LET first == CHOOSE x \in S : \A y \in S : x <= y
         IN  <<first>> \o Ascending(S \ {first})

RECURSIVE Reverse(_)
Reverse(s) == IF s = <<>> THEN <<>> ELSE Reverse(Tail(s)) \o <<Head(s)>>

\* Mutant: the queryset without order_by, in the model's default ordering
\* ('-created_at').
PendingJobs_DefaultOrdering(limit) ==
    LET all == Reverse(Ascending({j \in DOMAIN jobs :
                                    /\ jobs[j].job_type = JOB_TYPE_PLAN_TRIP
                                    /\ jobs[j].status = STATUS_PENDING}))
    IN  SubSeq(all, 1, Min2(limit, Len(all)))

\* filter(job_type=PLAN_TRIP, status=PENDING).order_by('created_at')[:limit]
PendingJobs(limit) ==
    LET all == Ascending({j \in DOMAIN jobs :
                            /\ jobs[j].job_type = JOB_TYPE_PLAN_TRIP
                            /\ jobs[j].status = STATUS_PENDING})
    IN  SubSeq(all, 1, Min2(limit, Len(all)))

\* process_pending_trip_jobs: the queryset is evaluated when the loop starts.
BatchSelect(w, limit) ==
    /\ WorkerFree(w)
    /\ workers' = [workers EXCEPT ![w] =
          IF PendingJobs(limit) = <<>>
          THEN [IdleWorker EXCEPT !.op = "processBatch", !.pc = "done"]
          ELSE [IdleWorker EXCEPT !.op = "processBatch", !.pc = "mark_running",
                                  !.limit = limit,
                                  !.pending_jobs = PendingJobs(limit), !.idx = 1]]
    /\ UNCHANGED <<trips, routes, stops, nextTripId, jobs, nextJobId, jobFrame>>

\* Mutant: run_job without the check of the job's status.
RunOneLoad_AnyStatus(w, job_id) ==
    /\ WorkerFree(w)
    /\ job_id \in DOMAIN jobs
    /\ workers' = [workers EXCEPT ![w] =
          [IdleWorker EXCEPT !.op = "runOne", !.pc = "mark_running",
                             !.pending_jobs = <<job_id>>, !.idx = 1]]
    /\ UNCHANGED <<trips, routes, stops, nextTripId, jobs, nextJobId, jobFrame>>

\* run_job: the job is loaded and its status checked; a job that is neither
\* PENDING nor RUNNING is returned as it was loaded.
RunOneLoad(w, job_id) ==
    /\ WorkerFree(w)
    /\ job_id \in DOMAIN jobs
    /\ workers' = [workers EXCEPT ![w] =
          IF jobs[job_id].status \notin {STATUS_PENDING, STATUS_RUNNING}
          THEN [IdleWorker EXCEPT !.op = "runOne", !.pc = "done", !.processed = <<job_id>>]
          ELSE [IdleWorker EXCEPT !.op = "runOne", !.pc = "mark_running",
                                  !.pending_jobs = <<job_id>>, !.idx = 1]]
    /\ UNCHANGED <<trips, routes, stops, nextTripId, jobs, nextJobId, jobFrame>>

\* job.mark_running()
JobMarkRunning(w) ==
    /\ workers[w].pc = "mark_running"
    /\ jobs' = [jobs EXCEPT ![CurrentJob(w)] = mark_running(@)]
    /\ workers' = [workers EXCEPT ![w].pc = "run"]
    /\ UNCHANGED <<trips, routes, stops, nextTripId, nextJobId, jobFrame>>

\* Mutant: _run_trip_job without the check of job.user.
JobRunFails_NoUserCheck(w, failure) ==
    /\ workers[w].pc = "run"
    /\ workers' = [workers EXCEPT ![w].pc = "mark",
                                  ![w].outcome = JobErr(failure.kind, failure.message)]
    /\ UNCHANGED <<trips, routes, stops, nextTripId, jobs, nextJobId, jobFrame>>

\* _run_trip_job raises: no user, or the pipeline fails and rolls back.
JobRunFails(w, failure) ==
    /\ workers[w].pc = "run"
    /\ workers' = [workers EXCEPT ![w].pc = "mark", ![w].outcome =
          IF jobs[CurrentJob(w)].user = NoUser
          THEN JobErr("TripPlanningError", USER_GONE)
          ELSE JobErr(failure.kind, failure.message)]
    /\ UNCHANGED <<trips, routes, stops, nextTripId, jobs, nextJobId, jobFrame>>

\* _run_trip_job returns the trip that plan_trip_for_user committed.
JobRunOk(w, resp) ==
    /\ workers[w].pc = "run"
    /\ jobs[CurrentJob(w)].user # NoUser
    /\ nextTripId <= MaxTrips
    /\ LET job == jobs[CurrentJob(w)]
       IN  /\ trips' = trips @@ (nextTripId :>
                         PlannedTrip(NewTrip(job.user, job.payload.cycle_hours_used), resp))
           /\ routes' = routes @@ (nextTripId :> NewRoute(resp))
           /\ stops' = stops \cup StopRecords(nextTripId, resp)
    /\ nextTripId' = nextTripId + 1
    /\ workers' = [workers EXCEPT ![w].pc = "mark", ![w].outcome = JobOk(nextTripId)]
    /\ UNCHANGED <<jobs, nextJobId, jobFrame>>

\* Mutant: only TripPlanningError is caught; any other exception leaves the
\* runner with the job as it was.
JobMark_KnownErrorsOnly(w) ==
    /\ workers[w].pc = "mark"
    /\ jobs' = [jobs EXCEPT ![CurrentJob(w)] =
          IF workers[w].outcome.ok
          THEN mark_success(@, [trip_id |-> workers[w].outcome.trip])
          ELSE IF workers[w].outcome.kind = "TripPlanningError"
          THEN mark_failed(@, workers[w].outcome.message)
          ELSE @]
    /\ workers' = [workers EXCEPT ![w] =
          IF workers[w].idx < Len(workers[w].pending_jobs) /\ workers[w].outcome.kind # "Exception"
          THEN [@ EXCEPT !.pc = "mark_running", !.idx = @ + 1, !.outcome = NoOutcome,
                         !.processed = Append(@, CurrentJob(w))]
          ELSE [@ EXCEPT !.pc = "done", !.idx = 0, !.limit = 0, !.outcome = NoOutcome,
                         !.processed = Append(@, CurrentJob(w))]]
    /\ UNCHANGED <<trips, routes, stops, nextTripId, nextJobId, jobFrame>>

\* job.mark_success({'trip_id': ...}) or job.mark_failed(message), then
\* processed.append(job) and on to the next job of the batch.
JobMark(w) ==
    /\ workers[w].pc = "mark"
    /\ jobs' = [jobs EXCEPT ![CurrentJob(w)] =
          IF workers[w].outcome.ok
          THEN mark_success(@, [trip_id |-> workers[w].outcome.trip])
          ELSE mark_failed(@, workers[w].outcome.message)]
    /\ workers' = [workers EXCEPT ![w] =
          IF workers[w].idx < Len(workers[w].pending_jobs)
          THEN [@ EXCEPT !.pc = "mark_running", !.idx = @ + 1, !.outcome = NoOutcome,
                         !.processed = Append(@, CurrentJob(w))]
          ELSE [@ EXCEPT !.pc = "done", !.idx = 0, !.limit = 0, !.outcome = NoOutcome,
                         !.processed = Append(@, CurrentJob(w))]]
    /\ UNCHANGED <<trips, routes, stops, nextTripId, nextJobId, jobFrame>>

\* --limit values of the command.
Limits == {1, 2}
\* The routing answer the job runs get.
JobRouteResponses == {x \in RouteResponses : Len(x.segments) = 2}

InitJobs == InitStore /\ hos = HosIdle

\* The steps an invocation takes once started.
WorkerStep(w) ==
    \/ JobMarkRunning(w)
    \/ \E failure \in JobFailures : JobRunFails(w, failure)
    \/ \E resp \in JobRouteResponses : JobRunOk(w, resp)
    \/ JobMark(w)

\* Invocations of processBatch and runOne overlap freely.
NextJobs ==
    \/ \E u \in Actors : Enqueue(u, 0)
    \/ \E w \in Workers :
          \/ \E limit \in Limits : BatchSelect(w, limit)
          \/ \E j \in 1..MaxJobs : RunOneLoad(w, j)
          \/ WorkerStep(w)

SpecJobs == InitJobs /\ [][NextJobs]_vars

\* One invocation at a time: none starts while another is in progress.
NoInvocationInProgress == \A w \in Workers : WorkerFree(w)

\* An invocation started by the single scheduler.
StartBatch(w, limit) == NoInvocationInProgress /\ BatchSelect(w, limit)
StartRunOne(w, job_id) == NoInvocationInProgress /\ RunOneLoad(w, job_id)

NextJobsSeq ==
    \/ \E u \in Actors : Enqueue(u, 0)
    \/ \E w \in Workers :
          \/ \E limit \in Limits : StartBatch(w, limit)
          \/ \E j \in 1..MaxJobs : StartRunOne(w, j)
          \/ WorkerStep(w)

SpecJobsSeq == InitJobs /\ [][NextJobsSeq]_vars

\* The scheduled worker (worker 1) runs the command again and again, each run
\* one processBatch; beside it a second invocation, of processBatch or of
\* runOne, may be in progress.
ScheduledWorker == 1
NextJobsLive ==
    \/ \E u \in Actors : Enqueue(u, 0)
    \/ \E limit \in Limits : BatchSelect(ScheduledWorker, limit)
    \/ \E w \in Workers \ {ScheduledWorker} :
          \/ \E limit \in Limits : BatchSelect(w, limit)
          \/ \E j \in 1..MaxJobs : RunOneLoad(w, j)
    \/ \E w \in Workers : WorkerStep(w)

\* An invocation that has started runs on (its process is not killed), and
\* the scheduled worker starts a batch whenever one would find work.
SpecJobsLive ==
    /\ InitJobs /\ [][NextJobsLive]_vars
    /\ WF_vars(\E limit \in Limits : BatchSelect(ScheduledWorker, limit))
    /\ \A w \in Workers : WF_vars(WorkerStep(w))

\* Queues left behind by a deleted user: the jobs that user enqueued have lost
\* their user (on_delete=SET_NULL), the jobs of u1 have theirs.
OrphanQueues ==
    {q \in UNION {[1..n -> {NewJob(NoUser, 0), NewJob("u1", 0)}] : n \in 1..MaxJobs} :
        \E i \in DOMAIN q : q[i].user = NoUser}

InitJobsOrphan ==
    /\ trips = <<>> /\ routes = <<>> /\ stops = {} /\ nextTripId = 1
    /\ driverLogs = <<>> /\ dutySegments = <<>>
    /\ req = [r \in Requests |-> IdleReq]
    /\ logCall = NoLogCall /\ logTx = NoLogTx /\ alertRun = NoAlertRun /\ hos = HosIdle
    /\ workers = [w \in Workers |-> IdleWorker]
    /\ jobs \in OrphanQueues
    /\ nextJobId = Len(jobs) + 1

\* The job runner, one invocation at a time, over such a queue.
SpecJobsOrphan == InitJobsOrphan /\ [][NextJobsSeq]_vars

(* ============================ driver logs ============================= *)
\* Segments in one upsert_driver_log payload.
MaxSegs == 2

FIFTEEN_MINUTES == 15
MINUTES_PER_DAY == 24 * 60
STATUS_OFF_DUTY == "OFF_DUTY"
STATUS_SLEEPER == "SLEEPER_BERTH"
STATUS_DRIVING == "DRIVING"
STATUS_ON_DUTY == "ON_DUTY"
VALID_STATUSES == {STATUS_OFF_DUTY, STATUS_SLEEPER, STATUS_DRIVING, STATUS_ON_DUTY}

\* The payload has no "status" key.
NoStatusKey == "(absent)"

\* datetime.strptime(value, "%H:%M").time() on the strings the payloads carry,
\* as minutes after midnight; a string outside the table does not parse.
TimeOfDay ==
    ("00:00" :> 0) @@ ("0:15" :> 15) @@ ("00:30" :> 30) @@ ("00:40" :> 40)
        @@ ("00:45" :> 45) @@ ("23:45" :> 23 * 60 + 45)
        @@ ("00:14" :> 14) @@ ("23:59" :> 23 * 60 + 59)

\* _parse_time: a time of day, or the ValidationError's message.
_parse_time(label, value) ==
    IF value = "" THEN [ok |-> FALSE, message |-> "Missing " \o label, time |-> 0]
    ELSE IF value \notin DOMAIN TimeOfDay
    THEN [ok |-> FALSE, message |-> "Invalid " \o label \o " format; expected HH:MM", time |-> 0]
    ELSE [ok |-> TRUE, message |-> "", time |-> TimeOfDay[value]]

\* (raw.get("location") or "")[:255]
LOCATION_LIMIT == 255
\* The payload has no "location" (or a null one).
NoLocation == Str("", 0)

\* SegmentInput(status=raw.get("status", OFF_DUTY), start_time=..., end_time=...,
\* location=(raw.get("location") or "")[:255]); activity is clipped the same way
\* and is not followed.
SegmentInput(raw) ==
    [status |-> IF raw.status = NoStatusKey THEN STATUS_OFF_DUTY ELSE raw.status,
     start_time |-> _parse_time("startTime", raw.startTime).time,
     end_time |-> _parse_time("endTime", raw.endTime).time,
     location |-> Slice(raw.location, LOCATION_LIMIT)]

\* SegmentInput.duration_minutes, the server's date being the same at both of
\* its datetime.today() reads
duration_minutes(segment) == segment.end_time - segment.start_time

\* SegmentInput.duration_minutes when midnight passes between its two
\* datetime.today() reads: end_dt is combined with the next day's date.
duration_minutes_over_midnight(segment) ==
    segment.end_time + MINUTES_PER_DAY - segment.start_time

\* Mutant: validate without the 15-minute rule.
validate_AnyDuration(segment) ==
    IF segment.status \notin VALID_STATUSES
    THEN "Unsupported duty status '" \o segment.status \o "'"
    ELSE IF segment.end_time <= segment.start_time
    THEN "Segment end_time must be after start_time"
    ELSE ""

\* SegmentInput.validate: the ValidationError's message, "" when it passes.
validate(segment) ==
    IF segment.status \notin VALID_STATUSES
    THEN "Unsupported duty status '" \o segment.status \o "'"
    ELSE IF segment.end_time <= segment.start_time
    THEN "Segment end_time must be after start_time"
    ELSE IF duration_minutes(segment) % FIFTEEN_MINUTES # 0
    THEN "Duty segments must be in 15-minute increments"
    ELSE ""

\* Mutant: _normalise_segments without segment.validate().
RawSegmentError_NoValidate(raw) ==
    IF ~_parse_time("startTime", raw.startTime).ok
    THEN _parse_time("startTime", raw.startTime).message
    ELSE IF ~_parse_time("endTime", raw.endTime).ok
    THEN _parse_time("endTime", raw.endTime).message
    ELSE ""

\* What _normalise_segments raises for one raw segment, "" when it is taken.
RawSegmentError(raw) ==
    IF ~_parse_time("startTime", raw.startTime).ok
    THEN _parse_time("startTime", raw.startTime).message
    ELSE IF ~_parse_time("endTime", raw.endTime).ok
    THEN _parse_time("endTime", raw.endTime).message
    ELSE validate(SegmentInput(raw))

\* _normalise_segments: the error of the first raw segment that has one.
NormaliseError(raw_segments) ==
    IF \A i \in 1..Len(raw_segments) : RawSegmentError(raw_segments[i]) = ""
    THEN ""
    ELSE LET first == CHOOSE i \in 1..Len(raw_segments) :
                        /\ RawSegmentError(raw_segments[i]) # ""
                        /\ \A k \in 1..(i - 1) : RawSegmentError(raw_segments[k]) = ""
         IN  RawSegmentError(raw_segments[first])

_normalise_segments(raw_segments) ==
    [i \in 1..Len(raw_segments) |-> SegmentInput(raw_segments[i])]

\* Mutant: a segment must start exactly where the previous one ended.
Overlaps_OrGap(parsed_segments) ==
    \E i \in 2..Len(parsed_segments) :
        parsed_segments[i].start_time # parsed_segments[i - 1].end_time

\* if last_segment_end and segment.start_time < last_segment_end
Overlaps(parsed_segments) ==
    \E i \in 2..Len(parsed_segments) :
        parsed_segments[i].start_time < parsed_segments[i - 1].end_time

RECURSIVE TotalMinutes(_, _)
\* totals[status] after the loop; every status when statuses is VALID_STATUSES
TotalMinutes(parsed_segments, statuses) ==
    IF parsed_segments = <<>> THEN 0
    ELSE (IF Head(parsed_segments).status \in statuses
          THEN duration_minutes(Head(parsed_segments)) ELSE 0)
         + TotalMinutes(Tail(parsed_segments), statuses)

\* upsert_driver_log up to the point where it starts writing: the exception it
\* raises, or Ok.
UpsertOutcome(user, trip_id, day_number, raw_segments) ==
    IF day_number <= 0 THEN Err("ValidationError", "dayNumber must be 1 or greater")
    ELSE IF ~Owned(user, trip_id) THEN Err("PermissionDenied", "Trip not found")
    ELSE IF NormaliseError(raw_segments) # ""
    THEN Err("ValidationError", NormaliseError(raw_segments))
    ELSE IF raw_segments = <<>>
    THEN Err("ValidationError", "At least one duty segment is required")
    ELSE IF Overlaps(_normalise_segments(raw_segments))
    THEN Err("ValidationError", "Duty segments may not overlap")
    ELSE IF TotalMinutes(_normalise_segments(raw_segments), VALID_STATUSES) > MINUTES_PER_DAY
    THEN Err("ValidationError", "Daily duty segments exceed 24 hours")
    ELSE Ok

\* The DriverLog row after get_or_create and save (log_date, notes and
\* total_distance_miles are not followed).
SavedLog(trip_id, day_number, parsed_segments) ==
    [trip |-> trip_id, day_number |-> day_number,
     total_off_duty_minutes |-> TotalMinutes(parsed_segments, {STATUS_OFF_DUTY}),
     total_sleeper_minutes |-> TotalMinutes(parsed_segments, {STATUS_SLEEPER}),
     total_driving_minutes |-> TotalMinutes(parsed_segments, {STATUS_DRIVING}),
     total_on_duty_minutes |-> TotalMinutes(parsed_segments, {STATUS_ON_DUTY})]

\* Mutant: the new segments are added to the ones the log already has.
ReplaceSegments_KeepsOld(existing, parsed_segments) == existing \o parsed_segments

\* driver_log.segments.all().delete(), then bulk_create of the new segments
ReplaceSegments(existing, parsed_segments) == parsed_segments

\* The segments a log has, none when there is no such log.
SegmentsOf(key) == IF key \in DOMAIN dutySegments THEN dutySegments[key] ELSE <<>>

\* f with key k set to v, whether or not k was in its domain
Put(f, k, v) == [x \in DOMAIN f \cup {k} |-> IF x = k THEN v ELSE f[x]]

logFrame == <<trips, routes, stops, nextTripId, req, hos, jobVars, alertRun>>
\* What the callers that run their transaction in one step leave alone besides.
logCallFrame == <<logFrame, logTx>>

\* A call that has returned: only its outcome stays.
LogCallDone(op, result) == [NoLogCall EXCEPT !.pc = "done", !.op = op, !.result = result]

\* A caller invokes upsert_driver_log with its arguments.
UpsertCall(user, trip_id, day_number, raw_segments) ==
    /\ logCall.pc # "called"
    /\ logCall' = [NoLogCall EXCEPT !.pc = "called", !.op = "upsertDriverLog", !.user = user,
                                    !.trip_id = trip_id, !.day_number = day_number,
                                    !.segments = raw_segments]
    /\ UNCHANGED <<driverLogs, dutySegments, logCallFrame>>

\* upsert_driver_log, one transaction
UpsertDriverLog ==
    LET user == logCall.user
        trip_id == logCall.trip_id
        day_number == logCall.day_number
        raw_segments == logCall.segments
        outcome == UpsertOutcome(user, trip_id, day_number, raw_segments)
        key == <<trip_id, day_number>>
    IN  /\ logCall.pc = "called"
        /\ logCall' = LogCallDone("upsertDriverLog", outcome)
        /\ IF outcome.ok
           THEN /\ driverLogs' = Put(driverLogs, key,
                       SavedLog(trip_id, day_number, _normalise_segments(raw_segments)))
                /\ dutySegments' = Put(dutySegments, key,
                       ReplaceSegments(SegmentsOf(key), _normalise_segments(raw_segments)))
           ELSE UNCHANGED <<driverLogs, dutySegments>>
        /\ UNCHANGED logCallFrame

\* What the caller of delete_driver_log gets: False (which the mutation reports
\* as "Driver log not found") when there is no such log, PermissionDenied when
\* the log's trip is another user's, True otherwise.
DeleteOutcome(user, log_id) ==
    IF log_id \notin DOMAIN driverLogs THEN Err("NotFound", "Driver log not found")
    ELSE IF trips[log_id[1]].user # user
    THEN Err("PermissionDenied", "Not allowed to modify this log")
    ELSE Ok

\* UpdateDriverLog.mutate up to its call of upsert_driver_log: the error it
\* returns, or Ok when it goes on to the upsert.
UpdateLookup(user, log_id) ==
    IF log_id \notin DOMAIN driverLogs THEN Err("NotFound", "Driver log not found")
    ELSE IF trips[log_id[1]].user # user THEN Err("PermissionDenied", "Not permitted")
    ELSE Ok

\* UpdateDriverLog.mutate: the log is looked up, then upsert_driver_log is
\* called for its trip and day.
UpdateDriverLog(user, log_id, raw_segments) ==
    /\ logCall.pc # "called"
    /\ logCall' = IF UpdateLookup(user, log_id).ok
                  THEN [NoLogCall EXCEPT !.pc = "called", !.op = "upsertDriverLog",
                                         !.user = user, !.trip_id = log_id[1],
                                         !.day_number = log_id[2], !.segments = raw_segments]
                  ELSE LogCallDone("updateDriverLog", UpdateLookup(user, log_id))
    /\ UNCHANGED <<driverLogs, dutySegments, logCallFrame>>

\* delete_driver_log, one transaction.  A transaction in flight that has read
\* the deleted row keeps its copy of it: the row it holds is gone.
DeleteDriverLog(user, log_id) ==
    /\ logCall.pc # "called"
    /\ logCall' = LogCallDone("deleteDriverLog", DeleteOutcome(user, log_id))
    /\ IF log_id \in DOMAIN driverLogs /\ trips[log_id[1]].user = user
       THEN /\ driverLogs' = Without(driverLogs, log_id)
            /\ dutySegments' = Without(dutySegments, log_id)
            /\ logTx' = IF logTx.pc = "loaded" /\ <<logTx.trip_id, logTx.day_number>> = log_id
                        THEN [logTx EXCEPT !.row_gone = TRUE]
                        ELSE logTx
       ELSE UNCHANGED <<driverLogs, dutySegments, logTx>>
    /\ UNCHANGED logFrame

\* Raw segments the payloads are made of: three that pass validation (one of
\* them without a status, one starting half an hour after the others end) and
\* one for each way of failing it.
RawSegments ==
    { [status |-> STATUS_DRIVING, startTime |-> "00:00", endTime |-> "0:15",
       location |-> Str("Depot", 5)],
      [status |-> NoStatusKey, startTime |-> "0:15", endTime |-> "00:30",
       location |-> Str("<a long address>", LOCATION_LIMIT + 1)],
      [status |-> STATUS_SLEEPER, startTime |-> "00:45", endTime |-> "23:45",
       location |-> NoLocation],
      [status |-> "driving", startTime |-> "00:00", endTime |-> "0:15",
       location |-> NoLocation],
      [status |-> STATUS_ON_DUTY, startTime |-> "00:30", endTime |-> "00:30",
       location |-> NoLocation],
      [status |-> STATUS_ON_DUTY, startTime |-> "00:00", endTime |-> "00:40",
       location |-> NoLocation],
      [status |-> STATUS_ON_DUTY, startTime |-> "", endTime |-> "24:00",
       location |-> NoLocation] }

\* Payloads of at most MaxSegs segments.
RawSegmentLists == UNION {[1..n -> RawSegments] : n \in 0..MaxSegs}
\* day_number arguments
DayNumbers == {0, 1, 2}
\* The trips of the store the log calls start from: the caller's and another's.
LogTripIds == {1, 2}

\* The store after u1 and u2 have each planned one trip.
InitLogs ==
    /\ trips = [t \in {1, 2} |->
                  PlannedTrip(NewTrip(IF t = 1 THEN "u1" ELSE "u2", 0),
                              CHOOSE resp \in RouteResponses : Len(resp.segments) = 2)]
    /\ routes = [t \in {1, 2} |->
                  NewRoute(CHOOSE resp \in RouteResponses : Len(resp.segments) = 2)]
    /\ stops = UNION {StopRecords(t, CHOOSE resp \in RouteResponses : Len(resp.segments) = 2)
                        : t \in {1, 2}}
    /\ nextTripId = 3
    /\ driverLogs = <<>> /\ dutySegments = <<>>
    /\ req = [r \in Requests |-> IdleReq]
    /\ logCall = NoLogCall
    /\ jobs = <<>> /\ nextJobId = 1 /\ workers = [w \in Workers |-> IdleWorker]
    /\ hos = HosIdle
    /\ logTx = NoLogTx
    /\ alertRun = NoAlertRun

NextLogs ==
    \/ \E u \in Actors, t \in LogTripIds, d \in DayNumbers, raw \in RawSegmentLists :
          UpsertCall(u, t, d, raw)
    \/ UpsertDriverLog
    \/ \E u \in Users, t \in LogTripIds, d \in DayNumbers : DeleteDriverLog(u, <<t, d>>)

SpecLogs == InitLogs /\ [][NextLogs]_vars

(* ---------------- driver logs, a call at the turn of the day ------------ *)
\* upsert_driver_log up to its first write when midnight passes during one
\* duration_minutes of the totals loop (lines 160-168): that segment's minutes
\* are a day more.  During validate the same changes nothing: the minutes stay
\* a multiple of 15.
UpsertOutcomeOverMidnight(user, trip_id, day_number, raw_segments, at) ==
    LET parsed_segments == _normalise_segments(raw_segments)
        minutes_cursor == TotalMinutes(parsed_segments, VALID_STATUSES)
                            - duration_minutes(parsed_segments[at])
                            + duration_minutes_over_midnight(parsed_segments[at])
    IN  IF day_number <= 0 THEN Err("ValidationError", "dayNumber must be 1 or greater")
        ELSE IF ~Owned(user, trip_id) THEN Err("PermissionDenied", "Trip not found")
        ELSE IF NormaliseError(raw_segments) # ""
        THEN Err("ValidationError", NormaliseError(raw_segments))
        ELSE IF raw_segments = <<>>
        THEN Err("ValidationError", "At least one duty segment is required")
        ELSE IF Overlaps(parsed_segments)
        THEN Err("ValidationError", "Duty segments may not overlap")
        ELSE IF minutes_cursor > MINUTES_PER_DAY
        THEN Err("ValidationError", "Daily duty segments exceed 24 hours")
        ELSE Ok

\* upsert_driver_log, one transaction, running while the server's date changes:
\* at is the segment whose duration is being computed at that moment.
UpsertDriverLogOverMidnight(at) ==
    LET user == logCall.user
        trip_id == logCall.trip_id
        day_number == logCall.day_number
        raw_segments == logCall.segments
        outcome == UpsertOutcomeOverMidnight(user, trip_id, day_number, raw_segments, at)
        key == <<trip_id, day_number>>
    IN  /\ logCall.pc = "called"
        /\ at \in 1..Len(raw_segments)
        /\ logCall' = LogCallDone("upsertDriverLog", outcome)
        /\ IF outcome.ok
           THEN /\ driverLogs' = Put(driverLogs, key,
                       SavedLog(trip_id, day_number, _normalise_segments(raw_segments)))
                /\ dutySegments' = Put(dutySegments, key,
                       ReplaceSegments(SegmentsOf(key), _normalise_segments(raw_segments)))
           ELSE UNCHANGED <<driverLogs, dutySegments>>
        /\ UNCHANGED logCallFrame

\* Raw segments reaching to the ends of the day: the two longest a day holds,
\* the quarter of an hour before and after them, and one of 14 minutes.
DayEdgeSegments ==
    { [status |-> STATUS_DRIVING, startTime |-> "00:00", endTime |-> "23:45",
       location |-> NoLocation],
      [status |-> STATUS_ON_DUTY, startTime |-> "00:14", endTime |-> "23:59",
       location |-> NoLocation],
      [status |-> STATUS_OFF_DUTY, startTime |-> "00:00", endTime |-> "0:15",
       location |-> NoLocation],
      [status |-> STATUS_SLEEPER, startTime |-> "0:15", endTime |-> "23:45",
       location |-> NoLocation],
      [status |-> STATUS_OFF_DUTY, startTime |-> "23:45", endTime |-> "23:59",
       location |-> NoLocation] }
DayEdgeLists == UNION {[1..n -> DayEdgeSegments] : n \in 0..MaxSegs}

NextLogsClock ==
    \/ \E u \in Actors, d \in DayNumbers, raw \in DayEdgeLists : UpsertCall(u, 1, d, raw)
    \/ UpsertDriverLog
    \/ \E at \in 1..MaxSegs : UpsertDriverLogOverMidnight(at)
    \/ \E u \in Actors, d \in DayNumbers \ {0} : DeleteDriverLog(u, <<1, d>>)

SpecLogsClock == InitLogs /\ [][NextLogsClock]_vars

(* ------------------- driver logs, callers of both users --------------- *)
\* Trip ids of the calls: u1's trip, u2's trip and one that does not exist.
AccessTripIds == {1, 2, 3}
\* Payloads of the calls: the ones of a single segment.
AccessPayloads == {raw \in RawSegmentLists : Len(raw) = 1}
\* Log ids of the calls.
AccessLogIds == AccessTripIds \X (DayNumbers \ {0})

NextLogAccess ==
    \/ \E u \in Users, t \in AccessTripIds, d \in DayNumbers, raw \in AccessPayloads :
          UpsertCall(u, t, d, raw)
    \/ UpsertDriverLog
    \/ \E u \in Users, id \in AccessLogIds, raw \in AccessPayloads :
          UpdateDriverLog(u, id, raw)
    \/ \E u \in Users, id \in AccessLogIds : DeleteDriverLog(u, id)

SpecLogAccess == InitLogs /\ [][NextLogAccess]_vars

(* ---------------------- driver logs, two callers ---------------------- *)
\* A second caller's upsert_driver_log transaction, taken apart at the point
\* where it first writes.  Up to get_or_create it only reads.  From its first
\* write on it holds the lock of the DriverLog row until it commits, so that
\* every other writer of that log waits: the writes and the commit are one step.
\* The other callers run their transactions in one step (UpsertDriverLog,
\* DeleteDriverLog); with transactions serialised from their first write on,
\* these are all the interleavings two callers have.

LogTxDone(result) == [NoLogTx EXCEPT !.pc = "done", !.result = result]

\* Mutant: the totals are written only when the log is created.
WrittenLogs_TotalsOnCreate(trip_id, day_number, parsed_segments) ==
    IF <<trip_id, day_number>> \in DOMAIN driverLogs THEN driverLogs
    ELSE Put(driverLogs, <<trip_id, day_number>>, SavedLog(trip_id, day_number, parsed_segments))

\* The store after the writes of an upsert of (trip_id, day_number): save(),
\* segments.all().delete(), bulk_create.
WrittenLogs(trip_id, day_number, parsed_segments) ==
    Put(driverLogs, <<trip_id, day_number>>, SavedLog(trip_id, day_number, parsed_segments))

WrittenSegments(trip_id, day_number, parsed_segments) ==
    Put(dutySegments, <<trip_id, day_number>>,
        ReplaceSegments(SegmentsOf(<<trip_id, day_number>>), parsed_segments))

\* upsert_driver_log from its start to get_or_create.  A failed check ends the
\* call.  When there is no log of that day yet, get_or_create inserts one and
\* holds it to the commit: the rest of the transaction follows in the same step.
TxUpsertLoad(user, trip_id, day_number, raw_segments) ==
    LET outcome == UpsertOutcome(user, trip_id, day_number, raw_segments)
        key == <<trip_id, day_number>>
        parsed_segments == _normalise_segments(raw_segments)
    IN  /\ logTx.pc # "loaded"
        /\ IF ~outcome.ok
           THEN /\ logTx' = LogTxDone(outcome)
                /\ UNCHANGED <<driverLogs, dutySegments>>
           ELSE IF key \notin DOMAIN driverLogs
           THEN /\ logTx' = LogTxDone(Ok)
                /\ driverLogs' = WrittenLogs(trip_id, day_number, parsed_segments)
                /\ dutySegments' = WrittenSegments(trip_id, day_number, parsed_segments)
           ELSE /\ logTx' = [NoLogTx EXCEPT !.pc = "loaded", !.trip_id = trip_id,
                                            !.day_number = day_number,
                                            !.parsed_segments = parsed_segments]
                /\ UNCHANGED <<driverLogs, dutySegments>>
        /\ UNCHANGED <<logCall, logFrame>>

\* driver_log.save() and what follows it.  save() updates the row by its
\* primary key and inserts it when the update found no row; the insert fails on
\* unique_together when another row has taken (trip, day_number) meanwhile.
TxUpsertWrite ==
    LET key == <<logTx.trip_id, logTx.day_number>>
    IN  /\ logTx.pc = "loaded"
        /\ IF logTx.row_gone /\ key \in DOMAIN driverLogs
           THEN /\ logTx' = LogTxDone(Err("IntegrityError", "Duplicate entry"))
                /\ UNCHANGED <<driverLogs, dutySegments>>
           ELSE /\ logTx' = LogTxDone(Ok)
                /\ driverLogs' = WrittenLogs(logTx.trip_id, logTx.day_number,
                                             logTx.parsed_segments)
                /\ dutySegments' = WrittenSegments(logTx.trip_id, logTx.day_number,
                                                   logTx.parsed_segments)
        /\ UNCHANGED <<logCall, logFrame>>

\* The database ends a deadlock between the transaction and a concurrent
\* delete_driver_log of the same log (each waiting for a row the other has
\* locked) by rolling one of them back: here the upsert.
TxUpsertDeadlock ==
    /\ logTx.pc = "loaded"
    /\ <<logTx.trip_id, logTx.day_number>> \in DOMAIN driverLogs
    /\ logTx' = LogTxDone(Err("OperationalError", "Deadlock found"))
    /\ UNCHANGED <<driverLogs, dutySegments, logCall, logFrame>>

\* The payloads that pass every check of upsert_driver_log.
PassingSegmentLists ==
    {raw \in RawSegmentLists :
        /\ raw # <<>> /\ NormaliseError(raw) = ""
        /\ ~Overlaps(_normalise_segments(raw))
        /\ TotalMinutes(_normalise_segments(raw), VALID_STATUSES) <= MINUTES_PER_DAY}
\* The payloads of the caller whose transaction is taken apart: the ones of a
\* single segment, and the ones whose segments each pass validation.
RacePayloads == {raw \in RawSegmentLists : Len(raw) <= 1 \/ NormaliseError(raw) = ""}

NextLogsRace ==
    \/ \E raw \in PassingSegmentLists : UpsertCall("u1", 1, 1, raw)
    \/ UpsertDriverLog
    \/ \E u \in Actors, t \in LogTripIds, d \in DayNumbers, raw \in RacePayloads :
          TxUpsertLoad(u, t, d, raw)
    \/ TxUpsertWrite
    \/ TxUpsertDeadlock
    \/ \E u \in Users, d \in DayNumbers \ {0} : DeleteDriverLog(u, <<1, d>>)

SpecLogsRace == InitLogs /\ [][NextLogsRace]_vars

(* =========================== alert evaluator ========================== *)
\* Hours are counted in units of the evaluator's epsilon, 1e-6 hour.
AlertUnitsPerHour == 1000000
\* Day plans per call.
MaxAlertDays == 2

\* payload.get(key) is None
Missing == [has |-> FALSE, v |-> 0]
Given(v) == [has |-> TRUE, v |-> v]

\* int(payload.get("day_number", 0)) or None: None is written 0
NoDay == 0

\* driving_minutes / 60.0 where the minutes come from total_driving_minutes or,
\* without it, from float(total_driving_hours) * 60.0; 0.0 when both are
\* missing.  A minutes value is in units of 1/AlertUnitsPerHour minute.
HoursOfDay(minutes_raw, hours_raw) ==
    IF minutes_raw.has THEN minutes_raw.v \div 60
    ELSE IF hours_raw.has THEN (hours_raw.v * 60) \div 60
    ELSE 0

Alert(level, rule, day_number) == [level |-> level, rule |-> rule, day_number |-> day_number]

\* Mutant: the driving limit itself is not a warning.
DrivingAlerts_StrictlyBelow(driving, day_number) ==
    IF driving > DRIVING_LIMIT_PER_DAY * AlertUnitsPerHour + 1
    THEN <<Alert("danger", "11-hour driving limit", day_number)>>
    ELSE IF 100 * driving >= DRIVING_LIMIT_PER_DAY * AlertUnitsPerHour * 95
            /\ driving < DRIVING_LIMIT_PER_DAY * AlertUnitsPerHour
    THEN <<Alert("warning", "11-hour driving limit", day_number)>>
    ELSE <<>>

\* if driving > DRIVING_LIMIT_PER_DAY + 1e-6 ... elif driving >= DRIVING_LIMIT_PER_DAY * 0.95
DrivingAlerts(driving, day_number) ==
    IF driving > DRIVING_LIMIT_PER_DAY * AlertUnitsPerHour + 1
    THEN <<Alert("danger", "11-hour driving limit", day_number)>>
    ELSE IF 100 * driving >= DRIVING_LIMIT_PER_DAY * AlertUnitsPerHour * 95
    THEN <<Alert("warning", "11-hour driving limit", day_number)>>
    ELSE <<>>

\* if on_duty > ON_DUTY_LIMIT_PER_DAY + 1e-6 ... elif on_duty >= ON_DUTY_LIMIT_PER_DAY * 0.95
OnDutyAlerts(on_duty, day_number) ==
    IF on_duty > ON_DUTY_LIMIT_PER_DAY * AlertUnitsPerHour + 1
    THEN <<Alert("danger", "14-hour on-duty window", day_number)>>
    ELSE IF 100 * on_duty >= ON_DUTY_LIMIT_PER_DAY * AlertUnitsPerHour * 95
    THEN <<Alert("warning", "14-hour on-duty window", day_number)>>
    ELSE <<>>

\* Mutant: the cycle check of a day without the epsilon.
CycleAlerts_NoEpsilon(remaining_cycle, day_number) ==
    IF ~remaining_cycle.has THEN <<>>
    ELSE IF remaining_cycle.v < 0
    THEN <<Alert("danger", "70-hour/8-day cycle", day_number)>>
    ELSE IF remaining_cycle.v <= 8 * AlertUnitsPerHour
    THEN <<Alert("warning", "70-hour/8-day cycle", day_number)>>
    ELSE <<>>

\* if isinstance(remaining_cycle, (float, int)): < -1e-6 ... elif <= 8.0
CycleAlerts(remaining_cycle, day_number) ==
    IF ~remaining_cycle.has THEN <<>>
    ELSE IF remaining_cycle.v < -1
    THEN <<Alert("danger", "70-hour/8-day cycle", day_number)>>
    ELSE IF remaining_cycle.v <= 8 * AlertUnitsPerHour
    THEN <<Alert("warning", "70-hour/8-day cycle", day_number)>>
    ELSE <<>>

\* One turn of the loop over log_payloads.
DayAlerts(payload) ==
    LET day_number == IF payload.day_number = 0 THEN NoDay ELSE payload.day_number
        driving == HoursOfDay(payload.total_driving_minutes, payload.total_driving_hours)
        on_duty == HoursOfDay(payload.total_on_duty_minutes, payload.total_on_duty_hours)
    IN  DrivingAlerts(driving, day_number) \o OnDutyAlerts(on_duty, day_number)
          \o CycleAlerts(payload.remaining_cycle_hours, day_number)

RECURSIVE AlertsOfDays(_)
\* alerts after the loop
AlertsOfDays(log_payloads) ==
    IF log_payloads = <<>> THEN <<>>
    ELSE DayAlerts(Head(log_payloads)) \o AlertsOfDays(Tail(log_payloads))

RECURSIVE OnDutySum(_)
\* sum(minutes / 60.0 if minutes is not None else float(hours or 0.0) for entry in log_payloads)
OnDutySum(log_payloads) ==
    IF log_payloads = <<>> THEN 0
    ELSE (IF Head(log_payloads).total_on_duty_minutes.has
          THEN Head(log_payloads).total_on_duty_minutes.v \div 60
          ELSE Head(log_payloads).total_on_duty_hours.v)
         + OnDutySum(Tail(log_payloads))

\* Mutant: the trip-level alert is put in front of the alerts of the days.
TripAlert_First(alerts, projected_cycle_usage) ==
    IF projected_cycle_usage >= CYCLE_LIMIT_HOURS * AlertUnitsPerHour
    THEN <<Alert("danger", "70-hour/8-day cycle", NoDay)>> \o alerts
    ELSE IF 10 * projected_cycle_usage >= CYCLE_LIMIT_HOURS * AlertUnitsPerHour * 9
    THEN <<Alert("warning", "70-hour/8-day cycle", NoDay)>> \o alerts
    ELSE alerts

\* if projected_cycle_usage >= CYCLE_LIMIT_HOURS ... elif >= CYCLE_LIMIT_HOURS * 0.9
TripAlert(alerts, projected_cycle_usage) ==
    IF projected_cycle_usage >= CYCLE_LIMIT_HOURS * AlertUnitsPerHour
    THEN Append(alerts, Alert("danger", "70-hour/8-day cycle", NoDay))
    ELSE IF 10 * projected_cycle_usage >= CYCLE_LIMIT_HOURS * AlertUnitsPerHour * 9
    THEN Append(alerts, Alert("warning", "70-hour/8-day cycle", NoDay))
    ELSE alerts

_evaluate_hos_alerts(log_payloads, cycle_hours_used) ==
    TripAlert(AlertsOfDays(log_payloads), cycle_hours_used + OnDutySum(log_payloads))

\* A day plan as the scheduler's output carries it: totals in minutes.
PlanInMinutes(driving, on_duty, remaining_cycle) ==
    [day_number |-> 0,
     total_driving_minutes |-> Given(driving * 60), total_driving_hours |-> Missing,
     total_on_duty_minutes |-> Given(on_duty * 60), total_on_duty_hours |-> Missing,
     remaining_cycle_hours |-> remaining_cycle]

\* A day plan with its totals in hours.
PlanInHours(driving, on_duty, remaining_cycle) ==
    [day_number |-> 0,
     total_driving_minutes |-> Missing, total_driving_hours |-> Given(driving),
     total_on_duty_minutes |-> Missing, total_on_duty_hours |-> Given(on_duty),
     remaining_cycle_hours |-> remaining_cycle]

\* The day plans of the calls, in hours: a quiet day, and days just below, at
\* and just above each threshold.
DayPlanSamples ==
    {PlanInMinutes(0, 0, Missing),
     PlanInMinutes(10449999, 13299999, Given(8000001)),
     PlanInMinutes(10450000, 13300000, Given(8000000)),
     PlanInMinutes(11000000, 14000000, Given(0)),
     PlanInMinutes(11000001, 14000001, Given(-1)),
     PlanInMinutes(11000002, 14000002, Given(-2)),
     PlanInMinutes(10500000, 12500000, Given(7000000)),
     PlanInMinutes(11500000, 13500000, Given(-1000000)),
     PlanInHours(11000000, 13300000, Missing)}

\* Day plans numbered from 1 in the order of the days, as the scheduler emits them.
Numbered(plans) == [i \in 1..Len(plans) |-> [plans[i] EXCEPT !.day_number = i]]
AlertPayloads == {Numbered(plans) : plans \in UNION {[1..n -> DayPlanSamples] : n \in 0..MaxAlertDays}}
\* cycle_hours_used: none, and what brings one day of 13.3 hours to 63 and to 70
CycleUsedSamples == {0, 49700000, 56700000}

alertFrame == <<trips, routes, stops, driverLogs, dutySegments, nextTripId, req, hos, logCall,
                jobVars, logTx>>

\* A caller invokes _evaluate_hos_alerts with its arguments.
AlertCall(log_payloads, cycle_hours_used) ==
    /\ alertRun.pc # "called"
    /\ alertRun' = [pc |-> "called", log_payloads |-> log_payloads,
                    cycle_hours_used |-> cycle_hours_used, alerts |-> <<>>]
    /\ UNCHANGED alertFrame

\* The call returns its list; the arguments stay for the reader of the result.
EvaluateHosAlerts ==
    /\ alertRun.pc = "called"
    /\ alertRun' = [alertRun EXCEPT !.pc = "returned",
                       !.alerts = _evaluate_hos_alerts(alertRun.log_payloads,
                                                       alertRun.cycle_hours_used)]
    /\ UNCHANGED alertFrame

NextAlerts ==
    \/ \E log_payloads \in AlertPayloads, c \in CycleUsedSamples : AlertCall(log_payloads, c)
    \/ EvaluateHosAlerts

SpecAlerts == InitTrips /\ [][NextAlerts]_vars

(* ------------------- the evaluator on the scheduler's plan ------------ *)
\* A payload of generate_driver_logs as _evaluate_hos_alerts reads it: whole
\* minutes under total_*_minutes, no total_*_hours, remaining_cycle_hours a
\* float of two decimals.
LogPayload(summary) ==
    [day_number |-> summary.day_number,
     total_driving_minutes |-> Given(summary.total_driving_minutes * AlertUnitsPerHour),
     total_driving_hours |-> Missing,
     total_on_duty_minutes |-> Given(summary.total_on_duty_minutes * AlertUnitsPerHour),
     total_on_duty_hours |-> Missing,
     remaining_cycle_hours |-> Given(summary.remaining_cycle_hours * (AlertUnitsPerHour \div 100))]

\* The hours of the scheduler's input in the evaluator's units.
InAlertUnits(units) ==
    (units \div UnitsPerHour) * AlertUnitsPerHour
      + ((units % UnitsPerHour) * AlertUnitsPerHour) \div UnitsPerHour

\* The plan the scheduler returned is handed to the evaluator with the
\* cycle_hours_used the plan was made for.
PlanAlertCall ==
    /\ hos.pc = "returned"
    /\ alertRun.pc = "idle"
    /\ alertRun' = [pc |-> "called",
                    log_payloads |-> [i \in 1..Len(hos.summaries) |-> LogPayload(hos.summaries[i])],
                    cycle_hours_used |-> InAlertUnits(hos.cycle_hours_used),
                    alerts |-> <<>>]
    /\ UNCHANGED alertFrame

NextPlanAlerts == NextHos \/ PlanAlertCall \/ EvaluateHosAlerts

SpecPlanAlerts == InitHos /\ [][NextPlanAlerts]_vars

(* ============================== claims ================================ *)
(* ------------------------- HOS day scheduler -------------------------- *)
HosFinished == hos.pc \in {"raised", "returned"}

RECURSIVE SumField(_, _)
\* The sum of field f over the records of a sequence.
SumField(seq, f) == IF seq = <<>> THEN 0 ELSE seq[1][f] + SumField(Tail(seq), f)

\* C7: for every total_trip_hours >= 0 and cycle_hours_used >= 70 the scheduler
\* raises the cycle-exhausted error and emits no day; for cycle_hours_used < 70
\* and total_trip_hours = 0 it raises the no-hours error and emits no day.
C7_FailsWithoutDays ==
    /\ (hos.pc # "idle" /\ hos.total_trip_hours >= 0
            /\ hos.cycle_hours_used >= Hours(CYCLE_LIMIT_HOURS))
        => /\ hos.summaries = <<>>
           /\ hos.pc \in {"start", "raised"}
           /\ HosFinished => hos.error = HOS_CYCLE_EXHAUSTED
    /\ (hos.pc # "idle" /\ hos.total_trip_hours = 0
            /\ hos.cycle_hours_used < Hours(CYCLE_LIMIT_HOURS))
        => /\ hos.summaries = <<>>
           /\ hos.pc \in {"start", "raised"}
           /\ HosFinished => hos.error = HOS_NO_HOURS

\* A run with the cycle used up exactly (70 h) and hours to drive has raised.
C7_Witness ==
    /\ hos.pc = "raised"
    /\ hos.cycle_hours_used = Hours(CYCLE_LIMIT_HOURS)
    /\ hos.total_trip_hours > 0

ValidHosInput ==
    hos.total_trip_hours > 0 /\ hos.cycle_hours_used < Hours(CYCLE_LIMIT_HOURS)

\* Every emitted day: driving <= 11 h, on-duty <= 14 h, on-duty >= driving.
DayLimitsHold ==
    \A i \in 1..Len(hos.summaries) :
        /\ hos.summaries[i].total_driving_minutes <= DRIVING_LIMIT_PER_DAY * 60
        /\ hos.summaries[i].total_on_duty_minutes <= ON_DUTY_LIMIT_PER_DAY * 60
        /\ hos.summaries[i].total_on_duty_minutes >= hos.summaries[i].total_driving_minutes
        /\ hos.summaries[i].segments[1].minutes >= 0

\* C8 as stated: every emitted day has driving <= 11 h and on-duty <= 14 h with
\* on-duty >= driving, and the driving of the emitted days sums to at most
\* min(total_trip_hours, 70 - cycle_hours_used).
C8_Original ==
    (hos.pc \in {"loop", "returned"} /\ ValidHosInput)
        => /\ DayLimitsHold
           /\ SumField(hos.summaries, "total_driving_minutes") * UnitsPerHour
                <= 60 * HoursToSchedule(hos.total_trip_hours, hos.cycle_hours_used)

\* C8 amended: the per-day limits hold; the hours planned (before rounding) sum
\* to at most min(total_trip_hours, 70 - cycle_hours_used); the emitted minutes,
\* each day's being rounded to the nearest minute, exceed that by at most half a
\* minute in all.
C8_DayLimitsAndRoundedSum ==
    (hos.pc \in {"loop", "returned"} /\ ValidHosInput)
        => /\ DayLimitsHold
           /\ SumField(hos.summaries, "planned_driving")
                <= HoursToSchedule(hos.total_trip_hours, hos.cycle_hours_used)
           /\ 2 * SumField(hos.summaries, "total_driving_minutes") * UnitsPerHour
                <= 2 * 60 * HoursToSchedule(hos.total_trip_hours, hos.cycle_hours_used)
                     + UnitsPerHour

\* A returned plan of several days, the first a full 11 hours of driving, whose
\* last day's driving is not a whole number of minutes.
C8_Witness ==
    /\ hos.pc = "returned" /\ ValidHosInput
    /\ Len(hos.summaries) >= 2
    /\ hos.summaries[1].total_driving_minutes = DRIVING_LIMIT_PER_DAY * 60
    /\ LET last == hos.summaries[Len(hos.summaries)]
       IN  last.total_driving_minutes * UnitsPerHour # 60 * last.planned_driving

(* ----------------------------- trip store ----------------------------- *)
ActiveTrips(user) ==
    {t \in DOMAIN trips : trips[t].user = user /\ trips[t].status = TRIP_STATUS_IN_PROGRESS}

\* C1: in every reachable state, under any interleaving of planTrip,
\* updateTripStatus and deleteTrip requests, each user owns at most one Trip
\* whose status is IN_PROGRESS.
C1_OneActiveTripPerUser == \A u \in Users : Cardinality(ActiveTrips(u)) <= 1

StopsOf(tid) == {s \in stops : s.route = tid}
LogsOf(tid) == {k \in DOMAIN driverLogs : k[1] = tid}
NothingPersistedFor(tid) ==
    tid \notin DOMAIN trips /\ tid \notin DOMAIN routes /\ StopsOf(tid) = {}

PlanFailedIn(r) ==
    /\ req[r].op = "planTrip" /\ req[r].pc = "routing"
    /\ req'[r].pc = "done" /\ ~req'[r].result.ok

\* A step of a planTrip call other than its successful end.
PlanStepWithoutSuccess(r) ==
    /\ req'[r] # req[r] /\ req'[r].op = "planTrip" /\ ~req'[r].result.ok

\* C4: planTrip is all-or-nothing.  No step of a planTrip call other than its
\* successful end changes the committed store.  The step in which a call fails
\* (the routing collaborator or anything else raising after the Trip row was
\* created) leaves the committed Trips, Routes and Stops exactly as they were,
\* with no row of the call's trip among them, and a routing failure is reported
\* as a TripPlanningError carrying the collaborator's message; no row of a failed
\* call is in the store afterwards either.
C4_PlanTripAllOrNothing ==
    /\ [](\A r \in Requests :
            (req[r].op = "planTrip" /\ req[r].pc = "done" /\ ~req[r].result.ok)
                => NothingPersistedFor(req[r].tid))
    /\ [][\A r \in Requests :
            /\ PlanStepWithoutSuccess(r) =>
                /\ trips' = trips /\ routes' = routes /\ stops' = stops
                /\ driverLogs' = driverLogs
            /\ PlanFailedIn(r) =>
                /\ NothingPersistedFor(req[r].tid)'
                /\ \A msg \in RouteErrors :
                       PlanRouteFails(r, msg)
                           => req'[r].result = Err("TripPlanningError", msg)]_vars

\* A planTrip call has failed on a routing error while the store holds the trip
\* of an earlier call.
C4_Witness ==
    \E r \in Requests :
        /\ req[r].op = "planTrip" /\ req[r].pc = "done"
        /\ req[r].result.kind = "TripPlanningError"
        /\ req[r].result.message \in RouteErrors
        /\ DOMAIN trips # {}

\* The stop of trip tid with the given sequence number (there is exactly one).
StopAt(tid, seq) == CHOOSE s \in StopsOf(tid) : s.sequence = seq

\* C5: the step in which planTrip succeeds adds exactly one Trip, PLANNED, with
\* the routing response's total distance and duration, exactly one Route for
\* it, and exactly three Stops with sequence 1, 2, 3 and types START, PICKUP,
\* DROPOFF (START at distance and duration 0, the others taken from routing
\* segments 1 and 2, 0 where the response has no such segment); it creates no
\* DriverLog and the itinerary summary's hos_alerts is present and empty.
C5_SuccessfulPlanPersists ==
    [][\A r \in Requests : \A resp \in RouteResponses :
          PlanRouteOk(r, resp) =>
            LET tid == req[r].tid IN
            /\ req'[r].result.ok
            /\ tid \notin DOMAIN trips
            /\ DOMAIN trips' = DOMAIN trips \cup {tid}
            /\ \A t \in DOMAIN trips : trips'[t] = trips[t]
            /\ trips'[tid].status = TRIP_STATUS_PLANNED
            /\ trips'[tid].total_miles = resp.total_distance_miles
            /\ trips'[tid].total_hours = resp.total_duration_hours
            /\ DOMAIN routes' = DOMAIN routes \cup {tid} /\ tid \notin DOMAIN routes
            /\ \A t \in DOMAIN routes : routes'[t] = routes[t]
            /\ routes'[tid].total_distance = resp.total_distance_miles
            /\ routes'[tid].estimated_duration = resp.total_duration_hours
            /\ stops \subseteq stops' /\ stops' \ stops = StopsOf(tid)'
            /\ Cardinality(StopsOf(tid)') = 3
            /\ {s.sequence : s \in StopsOf(tid)'} = {1, 2, 3}
            /\ \A s \in StopsOf(tid)' :
                 /\ s.stop_type = <<"START", "PICKUP", "DROPOFF">>[s.sequence]
                 /\ s.sequence = 1 =>
                      s.distance_from_previous = 0 /\ s.duration_from_previous = 0
                 /\ s.sequence > 1 =>
                      IF Len(resp.segments) >= s.sequence - 1
                      THEN /\ s.distance_from_previous =
                                resp.segments[s.sequence - 1].distance_miles
                           /\ s.duration_from_previous =
                                resp.segments[s.sequence - 1].duration_hours
                      ELSE s.distance_from_previous = 0 /\ s.duration_from_previous = 0
            /\ driverLogs' = driverLogs /\ LogsOf(tid)' = {}
            /\ trips'[tid].itinerary_summary.present
            /\ trips'[tid].itinerary_summary.hos_alerts = <<>>]_vars

\* A planTrip call has succeeded on the response of 100 miles and 20 hours in two
\* legs, and its trip, route and stops are in the store.
C5_Witness ==
    \E r \in Requests :
        /\ req[r].op = "planTrip" /\ req[r].pc = "done" /\ req[r].result.ok
        /\ req[r].tid \in DOMAIN trips
        /\ trips[req[r].tid].total_miles = 100 /\ trips[req[r].tid].total_hours = 20
        /\ req[r].tid \in DOMAIN routes
        /\ StopAt(req[r].tid, 3).distance_from_previous = 50

\* Whether generate_driver_logs would raise for a trip of these hours.
SchedulerWouldFail(total_hours, cycle_hours) == HosError(Hours(total_hours), Hours(cycle_hours)) # ""

\* C6 as stated: when the HOS scheduler would fail for a trip, planTrip reports a
\* planning failure and persists no Trip, Route or Stop for the request: no
\* finished planTrip call whose trip the scheduler would reject has succeeded,
\* and no trip the scheduler would reject is in the store.
C6_Original ==
    /\ \A t \in DOMAIN trips :
           ~SchedulerWouldFail(trips[t].total_hours, trips[t].cycle_hours_used)
    /\ \A r \in Requests :
           (req[r].op = "planTrip" /\ req[r].pc = "done" /\ req[r].tid \in DOMAIN trips
               /\ SchedulerWouldFail(trips[req[r].tid].total_hours,
                                     trips[req[r].tid].cycle_hours_used))
             => ~req[r].result.ok

\* C6 amended: planTrip does not consult the HOS scheduler.  For a request whose
\* cycle hours the scheduler would reject, the call succeeds whenever routing
\* answers, persisting the Trip with those cycle hours, its Route and three
\* Stops; it fails only on a routing or unexpected error, and then persists no
\* Trip, Route or Stop.
C6_PlanIgnoresScheduler ==
    [][\A r \in Requests :
          (/\ req[r].op = "planTrip" /\ req[r].pc = "routing"
           /\ req[r].txTrip.cycle_hours_used >= CYCLE_LIMIT_HOURS
           /\ req'[r].pc = "done")
          => /\ (\E resp \in RouteResponses : ENABLED PlanRouteOk(r, resp))
             /\ (\E resp \in RouteResponses : PlanRouteOk(r, resp))
                  => /\ req'[r].result.ok
                     /\ req[r].tid \in DOMAIN trips'
                     /\ trips'[req[r].tid].cycle_hours_used = req[r].txTrip.cycle_hours_used
                     /\ SchedulerWouldFail(trips'[req[r].tid].total_hours,
                                           trips'[req[r].tid].cycle_hours_used)
                     /\ req[r].tid \in DOMAIN routes'
                     /\ Cardinality(StopsOf(req[r].tid)') = 3
             /\ ~(\E resp \in RouteResponses : PlanRouteOk(r, resp))
                  => /\ ~req'[r].result.ok
                     /\ req'[r].result.kind \in {"TripPlanningError", "Exception"}
                     /\ req'[r].result.kind = "TripPlanningError"
                            => req'[r].result.message \in RouteErrors
                     /\ NothingPersistedFor(req[r].tid)']_vars

\* A trip planned with 70 cycle hours used is in the store, its call reported
\* as a success.
C6_Witness ==
    \E r \in Requests :
        /\ req[r].op = "planTrip" /\ req[r].pc = "done" /\ req[r].result.ok
        /\ req[r].tid \in DOMAIN trips
        /\ trips[req[r].tid].cycle_hours_used = 70
        /\ Cardinality(StopsOf(req[r].tid)) = 3

(* ----------------------------- job runner ----------------------------- *)
TerminalStatuses == {STATUS_SUCCESS, STATUS_FAILED}

\* C2: every job is created PENDING and its status only moves forward along
\* PENDING -> RUNNING -> (SUCCESS or FAILED), however the invocations of enqueue,
\* processBatch and runOne interleave: a job that has reached SUCCESS or FAILED
\* never changes status again and no invocation starts running it again, and no
\* job goes back to PENDING.
C2_StatusOnlyForward ==
    [][/\ \A j \in DOMAIN jobs' \ DOMAIN jobs : jobs'[j].status = STATUS_PENDING
       /\ \A j \in DOMAIN jobs :
            /\ jobs[j].status \in TerminalStatuses => jobs'[j].status = jobs[j].status
            /\ jobs[j].status = STATUS_RUNNING => jobs'[j].status # STATUS_PENDING
            /\ jobs[j].status = STATUS_PENDING
                   => jobs'[j].status \in {STATUS_PENDING, STATUS_RUNNING}
       /\ \A w \in Workers :
            (workers[w].pc = "mark_running" /\ workers'[w].pc = "run")
                => jobs[CurrentJob(w)].status \notin TerminalStatuses]_vars

BatchDone(w) == workers[w].op = "processBatch" /\ workers[w].pc = "done"
\* The step in which a processBatch invocation records the outcome of a run.
BatchMarks(w) ==
    workers[w].op = "processBatch" /\ workers[w].pc = "mark" /\ workers'[w] # workers[w]

\* What C3 says of a batch apart from the stored error message.
BatchCompletes(w) ==
    BatchDone(w) =>
        /\ workers[w].processed = workers[w].pending_jobs
        /\ \A i \in 1..Len(workers[w].pending_jobs) :
               jobs[workers[w].pending_jobs[i]].status \in TerminalStatuses

BatchMarkIsolated(w) ==
    LET j == CurrentJob(w)
        o == workers[w].outcome
    IN  /\ \A k \in DOMAIN jobs \ {j} : jobs'[k] = jobs[k]
        /\ o.ok => /\ jobs'[j].status = STATUS_SUCCESS
                   /\ jobs'[j].result = [trip_id |-> o.trip]
                   /\ o.trip \in DOMAIN trips /\ trips[o.trip].user = jobs[j].user
        /\ ~o.ok => jobs'[j].status = STATUS_FAILED
        /\ workers[w].idx < Len(workers[w].pending_jobs)
               => /\ workers'[w].pc = "mark_running"
                  /\ workers'[w].idx = workers[w].idx + 1
                  /\ workers'[w].pending_jobs = workers[w].pending_jobs

TimesParse(raw_segments) ==
    \A i \in 1..Len(raw_segments) :
        /\ raw_segments[i].startTime \in DOMAIN TimeOfDay
        /\ raw_segments[i].endTime \in DOMAIN TimeOfDay
StartOf(raw) == TimeOfDay[raw.startTime]
EndOf(raw) == TimeOfDay[raw.endTime]
UnknownStatus(raw) == raw.status \notin VALID_STATUSES \cup {NoStatusKey}
HasOverlap(raw_segments) ==
    \E i \in 2..Len(raw_segments) : StartOf(raw_segments[i]) < EndOf(raw_segments[i - 1])
HasGap(raw_segments) ==
    \E i \in 2..Len(raw_segments) : StartOf(raw_segments[i]) > EndOf(raw_segments[i - 1])
RECURSIVE RawTotal(_)
RawTotal(raw_segments) ==
    IF raw_segments = <<>> THEN 0
    ELSE EndOf(Head(raw_segments)) - StartOf(Head(raw_segments)) + RawTotal(Tail(raw_segments))
EachSegmentValid(raw_segments) ==
    \A i \in 1..Len(raw_segments) :
        /\ ~UnknownStatus(raw_segments[i])
        /\ EndOf(raw_segments[i]) > StartOf(raw_segments[i])
        /\ (EndOf(raw_segments[i]) - StartOf(raw_segments[i])) % 15 = 0

\* A request of one of the seven kinds C9 lists.
C9Request(day_number, raw_segments) ==
    \/ day_number <= 0
    \/ raw_segments = <<>>
    \/ \E i \in 1..Len(raw_segments) : UnknownStatus(raw_segments[i])
    \/ /\ TimesParse(raw_segments)
       /\ \/ \E i \in 1..Len(raw_segments) : EndOf(raw_segments[i]) <= StartOf(raw_segments[i])
          \/ \E i \in 1..Len(raw_segments) :
                (EndOf(raw_segments[i]) - StartOf(raw_segments[i])) % 15 # 0
          \/ HasOverlap(raw_segments)
          \/ RawTotal(raw_segments) > 1440

LogStoreUnchanged == driverLogs' = driverLogs /\ dutySegments' = dutySegments
\* The step in which the upsert_driver_log call in progress runs.
UpsertRuns == logCall.pc = "called" /\ logCall'.pc = "done"

\* C9 as stated: upsertDriverLog rejects with a ValidationError, leaving every
\* DriverLog and DutyStatusSegment as it was, any request with day_number <= 0,
\* an empty segment list, a segment of unknown status, a segment with
\* end_time <= start_time, a duration that is not a multiple of 15 minutes, a
\* segment starting before the previous one's end, or durations totalling more
\* than 1440 minutes.
C9_Original ==
    [][LET u == logCall.user
           t == logCall.trip_id
           d == logCall.day_number
           raw == logCall.segments
       IN (UpsertRuns /\ C9Request(d, raw))
              => /\ logCall'.result.kind = "ValidationError"
                 /\ LogStoreUnchanged]_vars

\* C9 amended: every such request is rejected and leaves every DriverLog and
\* DutyStatusSegment as it was; the error is a ValidationError when day_number
\* <= 0 or the trip is the caller's, and PermissionDenied("Trip not found") when
\* day_number > 0 and the trip is not one of the caller's.
C9_InvalidUpsertRejected ==
    [][LET u == logCall.user
           t == logCall.trip_id
           d == logCall.day_number
           raw == logCall.segments
       IN (UpsertRuns /\ C9Request(d, raw))
              => /\ ~logCall'.result.ok
                 /\ LogStoreUnchanged
                 /\ (d <= 0 \/ Owned(u, t)) => logCall'.result.kind = "ValidationError"
                 /\ (d > 0 /\ ~Owned(u, t))
                        => logCall'.result = Err("PermissionDenied", "Trip not found")]_vars

\* The store holds a log and the last upsert was refused for a segment that is
\* not a multiple of 15 minutes long.
C9_Witness ==
    /\ DOMAIN driverLogs # {}
    /\ logCall.op = "upsertDriverLog"
    /\ logCall.result = Err("ValidationError", "Duty segments must be in 15-minute increments")

RECURSIVE SuppliedMinutes(_, _)
SuppliedMinutes(raw_segments, status) ==
    IF raw_segments = <<>> THEN 0
    ELSE (IF Head(raw_segments).status = status
             \/ (Head(raw_segments).status = NoStatusKey /\ status = STATUS_OFF_DUTY)
          THEN EndOf(Head(raw_segments)) - StartOf(Head(raw_segments)) ELSE 0)
         + SuppliedMinutes(Tail(raw_segments), status)

\* The supplied segment as it reads back: its status (OFF_DUTY when none was
\* given), its times of day, its location up to 255 characters.
ReadBack(raw) ==
    [status |-> IF raw.status = NoStatusKey THEN STATUS_OFF_DUTY ELSE raw.status,
     start_time |-> StartOf(raw), end_time |-> EndOf(raw),
     location |-> [raw.location EXCEPT !.len = IF @ > 255 THEN 255 ELSE @]]

\* C11: round trip.  After an accepted upsertDriverLog(trip, day, segments) the
\* log of (trip, day) is there, once, with per-status minute totals equal to the
\* sums of the supplied segments' durations by status, and its stored segments
\* are the supplied ones in order and no others, whatever the log held before;
\* every other log is as it was.  The rows written depend on the arguments
\* alone, so repeating the upsert leaves the same state.
C11_UpsertRoundTrip ==
    [][(UpsertRuns /\ logCall'.result.ok) =>
          LET raw == logCall.segments
              key == <<logCall.trip_id, logCall.day_number>>
          IN  /\ DOMAIN driverLogs' = DOMAIN driverLogs \cup {key}
              /\ DOMAIN dutySegments' = DOMAIN driverLogs'
              /\ driverLogs'[key] =
                    [trip |-> logCall.trip_id, day_number |-> logCall.day_number,
                     total_off_duty_minutes |-> SuppliedMinutes(raw, STATUS_OFF_DUTY),
                     total_sleeper_minutes |-> SuppliedMinutes(raw, STATUS_SLEEPER),
                     total_driving_minutes |-> SuppliedMinutes(raw, STATUS_DRIVING),
                     total_on_duty_minutes |-> SuppliedMinutes(raw, STATUS_ON_DUTY)]
              /\ dutySegments'[key] = [i \in 1..Len(raw) |-> ReadBack(raw[i])]
              /\ \A k \in DOMAIN driverLogs \ {key} :
                    driverLogs'[k] = driverLogs[k] /\ dutySegments'[k] = dutySegments[k]]_vars

\* An accepted upsert has left a log of two segments, one stored as OFF_DUTY for
\* want of a status and with its location cut to 255 characters, and the log's
\* totals are those of the two.
C11_Witness ==
    /\ logCall.op = "upsertDriverLog" /\ logCall.result.ok
    /\ \E k \in DOMAIN driverLogs :
          /\ Len(dutySegments[k]) = 2
          /\ dutySegments[k][1].status = STATUS_DRIVING
          /\ dutySegments[k][2].status = STATUS_OFF_DUTY
          /\ dutySegments[k][2].location.len = 255
          /\ driverLogs[k].total_driving_minutes = 15
          /\ driverLogs[k].total_off_duty_minutes = 15

(* ---------------------- driver logs, two callers ---------------------- *)
RECURSIVE StoredMinutes(_, _)
\* The minutes the stored segments of one log spend in a status.
StoredMinutes(segs, status) ==
    IF segs = <<>> THEN 0
    ELSE (IF Head(segs).status = status
          THEN Head(segs).end_time - Head(segs).start_time ELSE 0)
         + StoredMinutes(Tail(segs), status)

\* C12: in every committed state reachable by any interleaving of
\* upsertDriverLog and deleteDriverLog calls, two callers upserting the same
\* (trip, day) concurrently included, each DriverLog's four minute totals equal
\* the sums of the durations of its current segments, status by status.
C12_TotalsMatchSegments ==
    /\ DOMAIN dutySegments = DOMAIN driverLogs
    /\ \A k \in DOMAIN driverLogs :
          /\ driverLogs[k].total_off_duty_minutes = StoredMinutes(dutySegments[k], STATUS_OFF_DUTY)
          /\ driverLogs[k].total_sleeper_minutes = StoredMinutes(dutySegments[k], STATUS_SLEEPER)
          /\ driverLogs[k].total_driving_minutes = StoredMinutes(dutySegments[k], STATUS_DRIVING)
          /\ driverLogs[k].total_on_duty_minutes = StoredMinutes(dutySegments[k], STATUS_ON_DUTY)

\* Two upserts of the same log with different segments are in progress, one
\* of them past its reads, over a log that a third upsert stored.
C12_Witness ==
    /\ logTx.pc = "loaded" /\ logCall.pc = "called"
    /\ <<logTx.trip_id, logTx.day_number>> = <<logCall.trip_id, logCall.day_number>>
    /\ logTx.parsed_segments # _normalise_segments(logCall.segments)
    /\ <<logTx.trip_id, logTx.day_number>> \in DOMAIN driverLogs
    /\ dutySegments[<<logTx.trip_id, logTx.day_number>>] # logTx.parsed_segments
    /\ driverLogs[<<logTx.trip_id, logTx.day_number>>].total_driving_minutes > 0

\* C13: the stored segments of one log are of the four statuses, each ends
\* after it starts and lasts a positive multiple of 15 minutes; they are in
\* the order of their start times and no two of them overlap; a log has at
\* least one segment and its segments last at most 1440 minutes together.
C13_StoredSegmentsWellFormed ==
    \A k \in DOMAIN dutySegments :
        LET segs == dutySegments[k]
        IN  /\ k \in DOMAIN driverLogs
            /\ Len(segs) >= 1
            /\ \A i \in 1..Len(segs) :
                  /\ segs[i].status \in {"OFF_DUTY", "SLEEPER_BERTH", "DRIVING", "ON_DUTY"}
                  /\ segs[i].end_time > segs[i].start_time
                  /\ (segs[i].end_time - segs[i].start_time) % 15 = 0
            /\ \A i, j \in 1..Len(segs) :
                  i < j => /\ segs[i].start_time < segs[j].start_time
                           /\ segs[i].end_time <= segs[j].start_time
            /\ StoredMinutes(segs, "OFF_DUTY") + StoredMinutes(segs, "SLEEPER_BERTH")
                 + StoredMinutes(segs, "DRIVING") + StoredMinutes(segs, "ON_DUTY") <= 1440

\* A log of two segments with a quarter of an hour between them is stored,
\* and the last payload of the second caller was turned down.
C13_Witness ==
    /\ logTx.pc = "done" /\ ~logTx.result.ok
    /\ \E k \in DOMAIN dutySegments :
          /\ Len(dutySegments[k]) = 2
          /\ dutySegments[k][2].start_time = dutySegments[k][1].end_time + 15
          /\ dutySegments[k][2].end_time = 23 * 60 + 45

(* ---------------------------- status machine -------------------------- *)
\* Request r has loaded its trip and is about to look for another active trip.
AboutToCheck(r) == req[r].op = "updateTripStatus" /\ req[r].pc = "check"

\* C14: when the user has a trip IN_PROGRESS, updateTripStatus(other trip,
\* IN_PROGRESS) on any other trip of that user, whatever its status, fails with
\* "Another trip is already in progress" and leaves both statuses unchanged.
C14_SecondActiveTripRejected ==
    [][\A r \in Requests :
          (/\ AboutToCheck(r) /\ req'[r] # req[r]
           /\ req[r].tid \in DOMAIN trips
           /\ ActiveTrips(req[r].user) \ {req[r].tid} # {})
          => /\ req'[r].pc = "done"
             /\ req'[r].result = Err("ValidationError", "Another trip is already in progress")
             /\ trips' = trips]_vars

\* The request was turned down for a trip that is COMPLETED, beside the
\* user's trip in progress.
C14_Witness ==
    \E r \in Requests :
        /\ req[r].pc = "done" /\ req[r].op = "updateTripStatus"
        /\ req[r].result.message = "Another trip is already in progress"
        /\ \E t1, t2 \in DOMAIN trips :
              /\ trips[t1].user = trips[t2].user
              /\ trips[t1].status = "IN_PROGRESS" /\ trips[t2].status = "COMPLETED"

\* C15: a trip's stored status becomes PLANNED only from PLANNED, and a trip
\* that is IN_PROGRESS stays IN_PROGRESS or becomes COMPLETED: a trip that has
\* left PLANNED never returns to it, and IN_PROGRESS never becomes CANCELLED
\* directly.
C15_StatusMachine ==
    [][\A t \in DOMAIN trips \cap DOMAIN trips' :
          /\ trips'[t].status = "PLANNED" => trips[t].status = "PLANNED"
          /\ trips[t].status = "IN_PROGRESS" => trips'[t].status \in {"IN_PROGRESS", "COMPLETED"}]_vars

\* C16: in every behaviour, deleteTrip interleaved with a concurrent
\* updateTripStatus on the same trip included, a trip is removed only at a
\* moment when its stored status is PLANNED.
C16_OnlyPlannedRemoved ==
    [][\A t \in DOMAIN trips \ DOMAIN trips' : trips[t].status = "PLANNED"]_vars

(* --------------------------- alert evaluator -------------------------- *)
AlertsReturned == alertRun.pc = "returned"

\* The hours of a day plan, in millionths of an hour, from a total given in
\* minutes or in hours.
PlanHours(minutes, hours) == IF minutes.has THEN minutes.v \div 60 ELSE hours.v
PlanDriving(plan) == PlanHours(plan.total_driving_minutes, plan.total_driving_hours)
PlanOnDuty(plan) == PlanHours(plan.total_on_duty_minutes, plan.total_on_duty_hours)

\* The alerts returned for one day and one rule, in the order of the list.
DayRuleAlerts(day, rule) ==
    SelectSeq(alertRun.alerts, LAMBDA a : a.day_number = day /\ a.rule = rule)

\* C17 as stated: the evaluator emits no alert for the 11-hour driving rule on
\* a day whose driving time is exactly 11.0 hours.
C17_Original ==
    AlertsReturned =>
        \A i \in DOMAIN alertRun.log_payloads :
            PlanDriving(alertRun.log_payloads[i]) = 11 * 1000000
                => DayRuleAlerts(i, "11-hour driving limit") = <<>>

\* C17, amended: on a day whose driving time is exactly 11.0 hours the
\* evaluator emits one alert for the 11-hour driving rule, a warning, and no
\* danger alert.
C17_ExactLimitWarns ==
    AlertsReturned =>
        \A i \in DOMAIN alertRun.log_payloads :
            PlanDriving(alertRun.log_payloads[i]) = 11 * 1000000
                => DayRuleAlerts(i, "11-hour driving limit")
                     = <<[level |-> "warning", rule |-> "11-hour driving limit", day_number |-> i]>>

\* A call has returned whose second day plans exactly 660 minutes of driving.
C17_Witness ==
    /\ AlertsReturned
    /\ Len(alertRun.log_payloads) = 2
    /\ alertRun.log_payloads[2].total_driving_minutes = [has |-> TRUE, v |-> 660 * 1000000]

\* The levels of the alerts returned for one day and one rule.
RuleLevels(day, rule) ==
    [k \in 1..Len(DayRuleAlerts(day, rule)) |-> DayRuleAlerts(day, rule)[k].level]

\* What a threshold rule asks for: danger above the limit (by more than eps),
\* a warning from 95% of the limit up to it, nothing below.
LimitLevels(hours, limit, eps) ==
    IF hours > limit * 1000000 + eps THEN <<"danger">>
    ELSE IF 100 * hours >= 95 * limit * 1000000 THEN <<"warning">>
    ELSE <<>>

\* What the cycle rule asks for after a day: danger below zero (by more than
\* eps), a warning up to 8.0 hours, nothing above.
RemainingLevels(remaining, eps) ==
    IF remaining < 0 - eps THEN <<"danger">>
    ELSE IF remaining <= 8 * 1000000 THEN <<"warning">>
    ELSE <<>>

AlertsOfDay(day) == SelectSeq(alertRun.alerts, LAMBDA a : a.day_number = day)

\* The per-day alerts of the returned list follow the threshold rules read
\* with tolerance eps.
PerDayRules(eps) ==
    \A i \in DOMAIN alertRun.log_payloads :
        LET plan == alertRun.log_payloads[i]
        IN  /\ RuleLevels(i, "11-hour driving limit") = LimitLevels(PlanDriving(plan), 11, eps)
            /\ RuleLevels(i, "14-hour on-duty window") = LimitLevels(PlanOnDuty(plan), 14, eps)
            /\ plan.remaining_cycle_hours.has
                 => RuleLevels(i, "70-hour/8-day cycle")
                      = RemainingLevels(plan.remaining_cycle_hours.v, eps)
            /\ Len(AlertsOfDay(i)) <= 3

\* C18 as stated: driving > 11h gives one danger alert, 0.95*11h <= driving <=
\* 11h one warning, below that none; the same for on-duty with 14h; remaining
\* cycle < 0 gives danger, 0 <= remaining <= 8.0 a warning, above 8.0 none; a
\* day yields at most three alerts.
C18_Original == AlertsReturned => PerDayRules(0)

\* C18, amended: the limits are compared with a tolerance of 1e-6 hour: danger
\* needs driving > 11h + 1e-6 (on-duty > 14h + 1e-6, remaining < -1e-6), and a
\* value within the tolerance of the limit gives the warning; a day plan
\* without a remaining-cycle number gets no cycle alert; a day yields at most
\* three alerts, at most one for each rule.
C18_ThresholdsWithTolerance ==
    AlertsReturned =>
        /\ PerDayRules(1)
        /\ \A i \in DOMAIN alertRun.log_payloads :
              ~alertRun.log_payloads[i].remaining_cycle_hours.has
                  => RuleLevels(i, "70-hour/8-day cycle") = <<>>

\* A call has returned for a day within the tolerance of all three limits
\* followed by a day beyond it.
C18_Witness ==
    /\ AlertsReturned
    /\ Len(alertRun.log_payloads) = 2
    /\ PlanDriving(alertRun.log_payloads[1]) = 11 * 1000000 + 1
    /\ alertRun.log_payloads[1].remaining_cycle_hours = [has |-> TRUE, v |-> -1]
    /\ PlanOnDuty(alertRun.log_payloads[2]) = 14 * 1000000 + 2
    /\ Len(AlertsOfDay(2)) = 3

RECURSIVE OnDutyOfPlans(_)
\* The on-duty hours of the day plans together.
OnDutyOfPlans(plans) ==
    IF plans = <<>> THEN 0 ELSE PlanOnDuty(Head(plans)) + OnDutyOfPlans(Tail(plans))

\* cycleHoursUsedBeforeTrip + the sum of the on-duty hours over all days
ProjectedUsage == alertRun.cycle_hours_used + OnDutyOfPlans(alertRun.log_payloads)

\* The alerts that carry no day_number.
TripLevelAlerts == SelectSeq(alertRun.alerts, LAMBDA a : a.day_number = 0)

\* The returned list: the alerts of the days in day order, then at most one
\* trip-level alert, for the cycle rule, of the level the projection asks for.
OrderedWithTripAlertLast ==
    /\ \A j, k \in DOMAIN alertRun.alerts :
          j < k => /\ alertRun.alerts[j].day_number # 0
                   /\ \/ alertRun.alerts[k].day_number = 0
                      \/ alertRun.alerts[j].day_number <= alertRun.alerts[k].day_number
    /\ TripLevelAlerts =
          IF ProjectedUsage >= 70 * 1000000
          THEN <<[level |-> "danger", rule |-> "70-hour/8-day cycle", day_number |-> 0]>>
          ELSE IF ProjectedUsage >= 63 * 1000000
          THEN <<[level |-> "warning", rule |-> "70-hour/8-day cycle", day_number |-> 0]>>
          ELSE <<>>

\* The step in which the call returns.
EvaluateReturns == alertRun.pc = "called" /\ alertRun'.pc = "returned"

\* C19: evaluate emits its alerts in day order followed by at most one
\* trip-level alert, which has no day_number and is always last: a danger
\* alert when cycleHoursUsedBeforeTrip plus the on-duty hours of all days is
\* at least 70, a warning when that is at least 63 and below 70, absent
\* otherwise; evaluate changes no state.
C19_DayOrderThenTripAlert ==
    /\ [](AlertsReturned => OrderedWithTripAlertLast)
    /\ [][EvaluateReturns =>
            /\ UNCHANGED <<trips, routes, stops, driverLogs, dutySegments, jobs>>
            /\ alertRun'.log_payloads = alertRun.log_payloads
            /\ alertRun'.cycle_hours_used = alertRun.cycle_hours_used]_vars

\* A call has returned alerts of both days and, last, the trip-level danger.
C19_Witness ==
    /\ AlertsReturned
    /\ \E j, k \in DOMAIN alertRun.alerts :
          alertRun.alerts[j].day_number = 1 /\ alertRun.alerts[k].day_number = 2
    /\ alertRun.alerts[Len(alertRun.alerts)]
          = [level |-> "danger", rule |-> "70-hour/8-day cycle", day_number |-> 0]

(* ------------------------------ job runner --------------------------- *)
\* Invocation w starts as runOne(j) in this step.
RunOneStarts(w, j) ==
    /\ workers[w].pc \in {"idle", "done"}
    /\ workers'[w] # workers[w]
    /\ workers'[w].op = "runOne"
    /\ workers'[w].pending_jobs = <<j>> \/ workers'[w].processed = <<j>>

\* C20: runOne(jobId) on a job whose status is SUCCESS or FAILED is a no-op:
\* it returns the job with the same status, result, error_message and
\* timestamps, does not run the pipeline and creates no Trip; any number of
\* such invocations leaves the store unchanged.
C20_RunOneOnTerminalJobIsNoOp ==
    [][\A w \in Workers, j \in DOMAIN jobs :
          (RunOneStarts(w, j) /\ jobs[j].status \in {"SUCCESS", "FAILED"})
          => /\ workers'[w].pc = "done"
             /\ workers'[w].processed = <<j>>
             /\ UNCHANGED <<jobs, nextJobId, trips, routes, stops, nextTripId>>]_vars

\* runOne has returned a FAILED job at once while the other invocation has
\* returned a SUCCESS job the same way.
C20_Witness ==
    \E w, v \in Workers :
        /\ w # v
        /\ workers[w].op = "runOne" /\ workers[w].pc = "done" /\ workers[w].pending_jobs = <<>>
        /\ workers[v].op = "runOne" /\ workers[v].pc = "done" /\ workers[v].pending_jobs = <<>>
        /\ Len(workers[w].processed) = 1 /\ Len(workers[v].processed) = 1
        /\ jobs[workers[w].processed[1]].status = "FAILED"
        /\ jobs[workers[v].processed[1]].status = "SUCCESS"

\* The job invocation w is working on has lost its user.
OnOrphanJob(w) ==
    /\ workers[w].pc \in {"run", "mark"}
    /\ jobs[workers[w].pending_jobs[workers[w].idx]].user = "none"

\* C21: a job whose user reference is null is, when processed by processBatch
\* or runOne, marked FAILED with the planning-failure message that the user no
\* longer exists; the pipeline is not executed, no Trip is created, and the
\* rest of the batch is still processed.
C21_OrphanJobFails ==
    [][\A w \in Workers :
          LET j == workers[w].pending_jobs[workers[w].idx]
          IN  /\ (OnOrphanJob(w) /\ workers[w].pc = "run" /\ workers'[w] # workers[w])
                 => /\ workers'[w].pc = "mark"
                    /\ ~workers'[w].outcome.ok
                    /\ workers'[w].outcome.kind = "TripPlanningError"
                    /\ workers'[w].outcome.message.text
                         = "Associated user no longer exists for this job."
                    /\ UNCHANGED <<trips, routes, stops, nextTripId>>
              /\ (OnOrphanJob(w) /\ workers[w].pc = "mark" /\ workers'[w] # workers[w])
                 => /\ jobs'[j].status = "FAILED"
                    /\ jobs'[j].error_message.text
                         = "Associated user no longer exists for this job."
                    /\ jobs'[j].result = jobs[j].result
                    /\ workers[w].idx < Len(workers[w].pending_jobs)
                         => /\ workers'[w].pc = "mark_running"
                            /\ workers'[w].idx = workers[w].idx + 1]_vars

\* A batch of two jobs is done: the first, without user, is FAILED with the
\* message and no trip; the second, of u1, is SUCCESS with its trip.
C21_Witness ==
    \E w \in Workers :
        /\ workers[w].op = "processBatch" /\ workers[w].pc = "done"
        /\ workers[w].processed = <<1, 2>>
        /\ jobs[1].user = "none" /\ jobs[1].status = "FAILED"
        /\ jobs[1].error_message.text = "Associated user no longer exists for this job."
        /\ jobs[2].status = "SUCCESS" /\ jobs[2].result.trip_id \in DOMAIN trips
        /\ Cardinality(DOMAIN trips) = 1

(* ----------------------- driver logs, ownership ---------------------- *)
\* The trip, or the log, exists and belongs to someone other than user.
ForeignTrip(user, tid) == tid \in DOMAIN trips /\ trips[tid].user # user
ForeignLog(user, id) == id \in DOMAIN driverLogs /\ ForeignTrip(user, id[1])

\* C22: for upsertDriverLog, updateDriverLog and deleteDriverLog the outcome
\* (error kind and message) a caller observes for a target owned by a
\* different user is identical to the outcome for a target that does not exist.
C22_ForeignLooksMissing ==
    \A u \in Users :
        /\ \A tf \in AccessTripIds, tm \in AccessTripIds \ DOMAIN trips,
              d \in DayNumbers, raw \in AccessPayloads :
              ForeignTrip(u, tf) => UpsertOutcome(u, tf, d, raw) = UpsertOutcome(u, tm, d, raw)
        /\ \A f \in AccessLogIds, m \in AccessLogIds \ DOMAIN driverLogs :
              ForeignLog(u, f) => /\ UpdateLookup(u, f) = UpdateLookup(u, m)
                                  /\ DeleteOutcome(u, f) = DeleteOutcome(u, m)

(* ------------------------- job runner, progress ----------------------- *)
JobTerminal(j) == j \in DOMAIN jobs /\ jobs[j].status \in {STATUS_SUCCESS, STATUS_FAILED}

\* The step in which worker w's pipeline run commits a trip.
CreatesTrip(w) == workers[w].pc = "run" /\ workers'[w].pc = "mark" /\ trips' # trips

\* The step in which worker w records the outcome of its run.
RecordsOutcome(w) == workers[w].pc = "mark" /\ workers'[w] # workers[w]

\* C23: every job created by enqueue eventually reaches SUCCESS or FAILED when
\* the scheduled worker keeps invoking processBatch with limit >= 1; a job has
\* been marked RUNNING in the store before a trip is created for it, and after
\* the pipeline run, whatever its outcome, the job is marked SUCCESS or FAILED.
C23_EveryJobFinishes ==
    /\ \A j \in 1..MaxJobs : (j \in DOMAIN jobs) ~> JobTerminal(j)
    /\ \A w \in Workers, j \in 1..MaxJobs :
          (workers[w].pc \in {"mark_running", "run", "mark"} /\ CurrentJob(w) = j)
             ~> JobTerminal(j)
    /\ [][\A w \in Workers :
            LET j == workers[w].pending_jobs[workers[w].idx]
            IN  /\ CreatesTrip(w) => jobs[j].started_at = "set"
                /\ RecordsOutcome(w) =>
                      jobs'[j].status = IF workers[w].outcome.ok THEN STATUS_SUCCESS
                                        ELSE STATUS_FAILED]_vars

\* Both jobs have finished, one with a trip and one after an unexpected error.
C23_Witness ==
    \E j, k \in DOMAIN jobs :
        /\ jobs[j].status = STATUS_SUCCESS /\ jobs[j].result.trip_id \in DOMAIN trips
        /\ jobs[k].status = STATUS_FAILED /\ jobs[k].error_message = Str("unexpected", 10)

(* --------------------------- job runner, FIFO -------------------------- *)
\* The jobs a batch would find waiting.
Waiting == {j \in DOMAIN jobs : jobs[j].job_type = "PLAN_TRIP" /\ jobs[j].status = "PENDING"}
Selected(w) == {workers[w].pending_jobs[i] : i \in 1..Len(workers[w].pending_jobs)}

\* Worker w starts a batch in this step.
BatchStarts(w) ==
    /\ workers[w].pc \in {"idle", "done"}
    /\ workers'[w].op = "processBatch" /\ workers'[w] # workers[w]

\* Worker w is inside a batch.
InBatch(w) == workers[w].op = "processBatch" /\ workers[w].pc \in {"mark_running", "run", "mark"}

\* C24: processBatch(limit) takes at most limit jobs, the oldest PENDING
\* PLAN_TRIP jobs in ascending creation order; jobs are run and returned in
\* that order, and every job outside the selection is left unchanged by the
\* batch.
C24_BatchIsFifo ==
    [][\A w \in Workers :
          /\ BatchStarts(w) =>
                LET sel == workers'[w].pending_jobs
                IN  /\ sel = <<>> => Waiting = {} /\ workers'[w].pc = "done"
                    /\ sel # <<>> =>
                          /\ Len(sel) <= workers'[w].limit
                          /\ \A i \in 1..Len(sel) : sel[i] \in Waiting
                          /\ \A i, k \in 1..Len(sel) : i < k => sel[i] < sel[k]
                          /\ \A j \in Waiting :
                                (\A i \in 1..Len(sel) : sel[i] # j)
                                   => /\ Len(sel) = workers'[w].limit
                                      /\ \A i \in 1..Len(sel) : sel[i] < j
          /\ InBatch(w) =>
                /\ \A j \in DOMAIN jobs : j \notin Selected(w) => jobs'[j] = jobs[j]
                /\ workers'[w].pending_jobs = workers[w].pending_jobs
                /\ jobs' # jobs => \E j \in Selected(w) :
                                      /\ j = workers[w].pending_jobs[workers[w].idx]
                                      /\ \A k \in DOMAIN jobs \ {j} : jobs'[k] = jobs[k]
                /\ workers'[w].idx # workers[w].idx =>
                      /\ workers'[w].processed =
                            SubSeq(workers[w].pending_jobs, 1, workers[w].idx)
                      /\ workers'[w].idx = workers[w].idx + 1 \/ workers'[w].pc = "done"]_vars

\* A batch of limit 1 is under way with a second PENDING job left out of it.
C24_Witness ==
    \E w \in Workers :
        /\ InBatch(w) /\ workers[w].limit = 1 /\ workers[w].pc = "mark"
        /\ \E j \in Waiting : j > workers[w].pending_jobs[1]

(* --------------------- job runner, overlapping runs -------------------- *)
\* Worker w has marked its current job RUNNING and is running it or about to
\* record the outcome.
Running(w) == workers[w].pc \in {"run", "mark"}

\* C25: under overlapping invocations the same job is never picked up twice:
\* no two workers are running the same job, and the trips created are no more
\* than the jobs that were started.
C25_JobPickedUpOnce ==
    /\ \A w, v \in Workers :
          (w # v /\ Running(w) /\ Running(v)) => CurrentJob(w) # CurrentJob(v)
    /\ Cardinality(DOMAIN trips) <= Cardinality({j \in DOMAIN jobs : jobs[j].started_at = "set"})

(* ----------------------- scheduler, the day loop ----------------------- *)
\* total_trip_hours > 0 and 0 <= cycle_hours_used < 70.
ValidSchedulerInput ==
    /\ hos.total_trip_hours > 0
    /\ hos.cycle_hours_used >= 0 /\ hos.cycle_hours_used < Hours(CYCLE_LIMIT_HOURS)

Days == hos.summaries
FirstDays(i) == SubSeq(hos.summaries, 1, i)

\* Day numbers 1..n, at most 6 days, at least 1 on return; the remaining cycle
\* of each day is not negative and never above the day before.
DayNumbering ==
    /\ Len(Days) <= 6
    /\ hos.pc = "returned" => Len(Days) >= 1
    /\ \A i \in 1..Len(Days) :
          /\ Days[i].day_number = i
          /\ Days[i].remaining_cycle_hours >= 0
          /\ i > 1 => Days[i].remaining_cycle_hours <= Days[i - 1].remaining_cycle_hours

\* C26 as stated: for valid input the loop terminates with 1 to 6 days numbered
\* 1..n; each day's remaining_cycle_hours is >= 0, never increases, and equals
\* (70 - cycle_hours_used) minus the on-duty hours of the days emitted so far.
\* (remaining_cycle_hours is in hundredths of an hour, on-duty in minutes.)
C26_Original ==
    /\ (hos.pc = "start" /\ ValidSchedulerInput) ~> (hos.pc = "returned")
    /\ [](ValidSchedulerInput /\ hos.pc \in {"loop", "returned"}
            => /\ DayNumbering
               /\ \A i \in 1..Len(Days) :
                     12 * UnitsPerHour * Days[i].remaining_cycle_hours
                        = 1200 * (Hours(CYCLE_LIMIT_HOURS) - hos.cycle_hours_used)
                          - 20 * UnitsPerHour * SumField(FirstDays(i), "total_on_duty_minutes"))

\* C26, amended: as above, the remaining cycle of a day being (70 -
\* cycle_hours_used) minus the on-duty hours planned so far, before they are
\* rounded to minutes, then rounded to two decimals.
C26_LoopEndsWithinSixDays ==
    /\ (hos.pc = "start" /\ ValidSchedulerInput) ~> (hos.pc = "returned")
    /\ [](ValidSchedulerInput /\ hos.pc \in {"loop", "returned"}
            => /\ DayNumbering
               /\ \A i \in 1..Len(Days) :
                     /\ Hours(CYCLE_LIMIT_HOURS) - hos.cycle_hours_used
                          >= SumField(FirstDays(i), "planned_on_duty")
                     /\ Days[i].remaining_cycle_hours
                          = RoundHundredths(Hours(CYCLE_LIMIT_HOURS) - hos.cycle_hours_used
                                            - SumField(FirstDays(i), "planned_on_duty")))

\* A run over the whole cycle has returned six days.
C26_Witness ==
    /\ hos.pc = "returned" /\ ValidSchedulerInput
    /\ Len(Days) = 6 /\ Days[6].remaining_cycle_hours = 0

(* ----------------------- scheduler, the plan's sums -------------------- *)
\* 70 - cycle_hours_used and min(total_trip_hours, 70 - cycle_hours_used), in units.
CycleLeft == Hours(CYCLE_LIMIT_HOURS) - hos.cycle_hours_used
TripOrCycle == Min2(hos.total_trip_hours, CycleLeft)

\* Every day except the last has exactly 11 h driving and 13 h on-duty.
FullDaysBeforeLast ==
    \A i \in 1..(Len(Days) - 1) :
        /\ Days[i].total_driving_minutes = 660
        /\ Days[i].total_on_duty_minutes = 780

\* C27 as stated, on the emitted minutes: the driving of the days sums to
\* exactly min(total_trip_hours, 70 - cycle_hours_used) or the on-duty time sums
\* to exactly 70 - cycle_hours_used; the on-duty sum never exceeds 70 -
\* cycle_hours_used; every day except the last has 11 h driving, 13 h on-duty.
C27_Original ==
    (hos.pc = "returned")
        => /\ \/ UnitsPerHour * SumField(Days, "total_driving_minutes") = 60 * TripOrCycle
              \/ UnitsPerHour * SumField(Days, "total_on_duty_minutes") = 60 * CycleLeft
           /\ UnitsPerHour * SumField(Days, "total_on_duty_minutes") <= 60 * CycleLeft
           /\ FullDaysBeforeLast

\* C27, amended: the sums are exact for the hours planned before each day is
\* rounded to whole minutes; the emitted minutes of a day are those hours
\* rounded, which changes the last day only.
C27_PlannedSumsExact ==
    (hos.pc = "returned")
        => /\ \/ SumField(Days, "planned_driving") = TripOrCycle
              \/ SumField(Days, "planned_on_duty") = CycleLeft
           /\ SumField(Days, "planned_on_duty") <= CycleLeft
           /\ FullDaysBeforeLast
           /\ \A i \in 1..Len(Days) :
                 /\ Days[i].total_driving_minutes = ToMinutes(Days[i].planned_driving)
                 /\ Days[i].total_on_duty_minutes = ToMinutes(Days[i].planned_on_duty)
                 /\ i < Len(Days) => /\ Days[i].planned_driving = Hours(11)
                                     /\ Days[i].planned_on_duty = Hours(13)

\* A plan that used the cycle up and left part of the trip unscheduled.
C27_Witness ==
    /\ hos.pc = "returned" /\ Len(Days) > 1
    /\ SumField(Days, "planned_on_duty") = CycleLeft
    /\ SumField(Days, "planned_driving") < TripOrCycle

(* ------------------ alerts on the scheduler's own plans ----------------- *)
\* The alerts of a finished evaluation of the scheduler's plan.
PlanAlerts == {alertRun.alerts[i] : i \in 1..Len(alertRun.alerts)}

\* C28: on a plan the scheduler produced the evaluator emits no danger alert
\* for a day and no alert at all for the 14-hour on-duty window; the only danger
\* alert is the trip-level one (no day number, 70-hour cycle), and it is there
\* only when cycle_hours_used plus the plan's on-duty time reaches 70 hours.
C28_PlanRaisesNoDayDanger ==
    (alertRun.pc = "returned")
        => \A a \in PlanAlerts :
              /\ a.rule # "14-hour on-duty window"
              /\ a.level = "danger"
                    => /\ a.day_number = 0
                       /\ a.rule = "70-hour/8-day cycle"
                       /\ 60 * hos.cycle_hours_used
                            + UnitsPerHour * SumField(hos.summaries, "total_on_duty_minutes")
                            >= 60 * UnitsPerHour * 70

\* A plan over the whole cycle was evaluated: warnings for its 11-hour days
\* and the trip-level danger alert.
C28_Witness ==
    /\ alertRun.pc = "returned" /\ Len(hos.summaries) = 6
    /\ \E a \in PlanAlerts : a.level = "danger" /\ a.day_number = 0
    /\ \E a \in PlanAlerts : a.level = "warning" /\ a.rule = "11-hour driving limit"

(* --------------------- driver logs, the day's total -------------------- *)
RECURSIVE SpanMinutes(_)
\* The minutes between start and end, summed over raw segments whose times parse.
SpanMinutes(raw_segments) ==
    IF raw_segments = <<>> THEN 0
    ELSE TimeOfDay[Head(raw_segments).endTime] - TimeOfDay[Head(raw_segments).startTime]
           + SpanMinutes(Tail(raw_segments))

RECURSIVE StoredTotal(_)
\* The minutes of the stored segments of one log.
StoredTotal(segs) ==
    IF segs = <<>> THEN 0
    ELSE Head(segs).end_time - Head(segs).start_time + StoredTotal(Tail(segs))

\* The call in progress carries a list that passes the per-segment checks and
\* the overlap check.
PassesSegmentAndOverlapChecks ==
    /\ logCall.pc = "called"
    /\ logCall.segments # <<>>
    /\ NormaliseError(logCall.segments) = ""
    /\ ~Overlaps(_normalise_segments(logCall.segments))

\* C29: a segment list that passes the per-segment and overlap checks totals at
\* most 1425 minutes; the "exceed 24 hours" error is never the one reported, a
\* list of more than 1440 minutes being rejected by the overlap check or before
\* it; no stored DriverLog's segments total 1440 minutes or more.
C29_TotalCheckNeverFires ==
    /\ PassesSegmentAndOverlapChecks => SpanMinutes(logCall.segments) <= 1425
    /\ (logCall.pc = "done" /\ logCall.op = "upsertDriverLog")
          => logCall.result.message # "Daily duty segments exceed 24 hours"
    /\ \A key \in DOMAIN dutySegments : StoredTotal(dutySegments[key]) < 1440

(* ----------------------- status machine, acceptance -------------------- *)
\* The three exclusions: (a) target PLANNED for a trip that is not PLANNED,
\* (b) a trip IN_PROGRESS with target PLANNED or CANCELLED, (c) target
\* IN_PROGRESS while the user has another trip IN_PROGRESS.
Excluded(current, target, other_active) ==
    \/ target = "PLANNED" /\ current # "PLANNED"
    \/ current = "IN_PROGRESS" /\ target \in {"PLANNED", "CANCELLED"}
    \/ target = "IN_PROGRESS" /\ other_active

Rejected(r) == req'[r].pc = "done" /\ ~req'[r].result.ok /\ trips' = trips
Accepted(r, tid, target) ==
    /\ req'[r].pc = "save" /\ req'[r].tid = tid /\ req'[r].ns = target /\ trips' = trips

\* C30: for a trip of the caller and a valid target status, updateTripStatus
\* goes through and sets the status exactly when none of the three exclusions
\* applies to the status it loaded; so COMPLETED and CANCELLED trips can be set
\* IN_PROGRESS, COMPLETED and CANCELLED can be swapped, PLANNED can go to COMPLETED.
C30_AcceptedUnlessExcluded ==
    [][\A r \in Requests :
          /\ \A u \in Users, t \in 1..MaxTrips, raw \in RawStatuses :
                (/\ UpdLoad(r, u, t, raw)
                 /\ t \in DOMAIN trips /\ trips[t].user = u
                 /\ NormaliseStatus(raw) \in {"PLANNED", "COMPLETED", "CANCELLED"})
                => IF Excluded(trips[t].status, NormaliseStatus(raw), FALSE)
                   THEN Rejected(r)
                   ELSE Accepted(r, t, NormaliseStatus(raw))
          /\ (AboutToCheck(r) /\ req'[r] # req[r] /\ req[r].tid \in DOMAIN trips)
                => IF Excluded(req[r].snap, "IN_PROGRESS",
                               ActiveTrips(req[r].user) \ {req[r].tid} # {})
                   THEN Rejected(r)
                   ELSE Accepted(r, req[r].tid, "IN_PROGRESS")
          /\ (/\ req[r].op = "updateTripStatus" /\ req[r].pc = "save" /\ req'[r] # req[r]
              /\ req[r].tid \in DOMAIN trips)
                => /\ trips'[req[r].tid].status = req[r].ns
                   /\ req'[r].pc = "done" /\ req'[r].result.ok]_vars

\* A COMPLETED trip is being set IN_PROGRESS, and a request has gone through
\* that left a trip CANCELLED.
C30_Witness ==
    \E r, q \in Requests :
        /\ req[r].op = "updateTripStatus" /\ req[r].pc = "save"
        /\ req[r].snap = "COMPLETED" /\ req[r].ns = "IN_PROGRESS"
        /\ req[q].op = "updateTripStatus" /\ req[q].pc = "done" /\ req[q].result.ok
        /\ \E t \in DOMAIN trips : trips[t].status = "CANCELLED"

====
